---------------------------- MODULE Spec2Model ----------------------------
(***************************************************************************)
(* Telemetry transport of the pedestrian-detection demo:                   *)
(*   - SocketTarget / UDPTarget / TCPTarget   (src/src/results/network.hpp) *)
(*   - HTTPConnection / HTTPTarget            (src/unnamed/part_003)        *)
(* Two threads run the code: the frame thread (the caller of write /       *)
(* submit) and the io_service thread ("loop"), which runs one completion   *)
(* handler at a time.  Every mutex acquisition starts a new step.          *)
(***************************************************************************)
EXTENDS Integers, Sequences, FiniteSets, TLC

(* ------------------------------------------------------------------ *)
(* Bounds of the model                                                 *)
(* ------------------------------------------------------------------ *)
\* enqueue_send calls made by the frame thread
MaxEnq == 3
\* send failures the transport reports
MaxFail == 1

(* ------------------------------------------------------------------ *)
(* Program constants (milliseconds)                                    *)
(* ------------------------------------------------------------------ *)
FailDelayMs == 250
RefuseDelayMs == 1000
ReconnectDelayMs == 5000
\* granularity of the model's clock: half the shortest delay
TickMs == FailDelayMs \div 2
\* the clock is observed when m_retry_timer has one of these times left
Breaks == {0 - TickMs, 0, TickMs, FailDelayMs, RefuseDelayMs, ReconnectDelayMs}

Threads == {"frame", "loop"}
Kinds == {"udp", "tcp"}
TimerHandlers == {"attempt", "connect"}
NoOne == "none"

VARIABLES
    kind,            \* which concrete sender was constructed
    m_queue,         \* SocketTarget::m_queue, the private buffer copies
    m_pending,       \* SocketTarget::m_pending
    m_connected,     \* TCPTarget::m_connected
    m_pending_mut,   \* owner of the mutex, or NoOne
    m_queue_mut,
    m_connected_mtx,
    m_retry_timer,   \* [left: ms until expiry (negative: expired),
                     \*  waits: async_wait handlers outstanding]
    posted,          \* wait handlers cancelled by a re-arm, ready to run
    inflight,        \* async sends issued and not yet completed
    connOps,         \* async_connect operations outstanding
    pc,              \* position of each thread
    loc,             \* locals of each thread: [neg: result of is_negative(),
                     \*  buf: enqueue_send's private copy of the bytes]
    hist             \* history, for the properties:
                     \*  nEnq: enqueue_send calls so far
                     \*  attemptLog: buffers handed to the socket, in order
                     \*  okSet: buffers whose send was reported successful
                     \*  nFail: failures reported so far
                     \*  everFailed: some send failed or was refused
                     \*  failSince: ms since the last reported failure (-1: none)
                     \*  failedBuf: buffer of the last failed send (0: none)
                     \*  gapAtAttempt: failSince when the latest attempt was issued
                     \*  retryOf: failedBuf when the latest attempt was issued
                     \*  linkUp: a connect succeeded since the last loss
                     \*  lostBuf: buffer whose send lost the connection
                     \*  resent: lostBuf when the latest attempt was issued
                     \*  timed: whether connFailSince is recorded
                     \*  connFailSince: ms since the oldest connect failure
                     \*     whose retry has not been issued (-1: none)
                     \*  traced: whether the callers' bytes vary
                     \*  data: bytes of each queued private copy
                     \*  orig: the caller's bytes when each was enqueued
                     \*  caller: bytes now in the caller's buffer
                     \*  handed: bytes handed to the latest attempt

mutexes == <<m_pending_mut, m_queue_mut, m_connected_mtx>>
timers == <<m_retry_timer, posted>>
senderVars == <<kind, m_queue, m_pending, m_connected, mutexes, timers,
                inflight, connOps, pc, loc, hist>>

(* ------------------------------------------------------------------ *)
(* State of the HTTP client                                            *)
(* ------------------------------------------------------------------ *)
\* submit calls made by the frame thread
MaxReq == 3

\* a status-line parse that passes the version it found on to the body
\* handler
http_version_found == 11

\* int http_version = 0; it is assigned only on the path that fails the
\* request, so on_body_recvd always receives 0
http_version == 0

Keys == {"hostA", "hostB"}
\* the Content-Length header the request itself carries: on_header_recvd
\* splits m_temp_buffer (the encoded request) into the header lines
ReqCL == {"none", "valid", "invalid"}
Reqs == 1..MaxReq
ConnIds == 1..MaxReq

VARIABLES
    m_enable_keepalive, \* HTTPTarget::m_enable_keepalive
    m_conns,            \* HTTPTarget::m_conns: key -> connection (0: no entry)
    m_active_conns,     \* HTTPTarget::m_active_conns
    m_conns_mtx,        \* owner of the mutex, or NoOne
    conn,               \* the HTTPConnection objects, by id:
                        \*  key, creator: the submit that made it
                        \*  sock: m_sock ("unopened", "connecting",
                        \*        "connected", "failed", "closed")
                        \*  m_pending, m_queue, m_work, m_queue_mut
                        \*  ios: socket reads/writes outstanding, with request
                        \*  cop: "resolve" / "connect" outstanding, or "none"
                        \*  m_response: "owned" (holds a Response),
                        \*   "null" (never set, or moved from)
                        \*  history: rdNull (m_response was dereferenced
                        \*   while null),
                        \*   pushLog (requests given to
                        \*   async_request, in order),
                        \*   sentLog (requests dequeued, in order),
                        \*   torn (which teardown ran), rfail (resolve
                        \*   failed), cfail (connect failed)
    nConn,              \* connections constructed so far
    req,                \* the requests submitted: [key]
    nReq,               \* submit calls so far
    calls,              \* per request: what its handler was invoked with
    hpc,                \* position of each thread
    hloc                \* locals of each thread: [c: connection, r: request]

httpVars == <<m_enable_keepalive, m_conns, m_active_conns, m_conns_mtx,
              conn, nConn, req, nReq, calls, hpc, hloc>>

(* ------------------------------------------------------------------ *)
(* Reading one response, byte by byte (on_header_recvd, on_body_recvd) *)
(* ------------------------------------------------------------------ *)
\* longest response body
MaxBody == 2
Bytes == {"a", "b"}
\* hdrs.get("Content-Length") finds no such header
NoLen == 0 - 1
\* strtoul stops before the end of the value: *p != 0
BadLen == 0 - 2
\* what the first nine characters received can be
Prefixes == {"HTTP/1.1 ", "HTTP/1.0 ", "HTTP/2.0 ", "ICY 200 O"}
\* what each of the three characters after them can be
CodeChars == {"2", "x", " "}

VARIABLES
    rq,             \* the request in flight: [clen], its Content-Length
    rs,             \* the response the peer sends: [prefix, code, clen, body]
    sockIn,         \* body bytes sent and not yet read from the socket
    peerClosed,     \* the peer has closed its end after sending
    m_recv_buffer,  \* HTTPConnection::m_recv_buffer (body bytes held)
    rpc,            \* the read outstanding: "hdr", "body_n", "body_eof", "done"
    need,           \* transfer_exactly(len) of the body read
    result          \* what the handler was invoked with: [kind, body]

rdVars == <<rq, rs, sockIn, peerClosed, m_recv_buffer, rpc, need, result>>

(* ------------------------------------------------------------------ *)
(* JSONWriter and Metadumper                                           *)
(* ------------------------------------------------------------------ *)
\* calls made on one JSONWriter before it is destroyed
MaxCalls == 5
EnclosureType == {"OBJECT", "ARRAY"}

VARIABLES
    jw,             \* the JSONWriter: [out, stack, first]
                    \*   out: what was put on m_out, as a sequence of tokens
                    \*   stack: m_stack, first: m_first
    jstatus,        \* "live", "done" (destroyed), "overclosed", "aborted"
    jflushed,       \* m_out.flush() was called
    jh              \* history, for the properties:
                    \*  nCalls: calls so far
                    \*  brackets: the opens and ends called, as tokens
                    \*  kinded: every call so far fitted the container it
                    \*     was made in (keyed in an object, unkeyed in an
                    \*     array, none after the root was closed)
                    \*  over: end() was called with no container open
                    \*  outAtDtor, stackAtDtor: out and m_stack when the
                    \*     destructor began

jsonVars == <<jw, jstatus, jflushed, jh>>

\* bounding boxes per record, and records per accept
MaxBoxes == 2
MaxRes == 2

VARIABLES
    din,            \* the arguments of Metadumper::accept
    dout            \* the strings given to m_tgt->write, in order

dumpVars == <<din, dout>>

(* ------------------------------------------------------------------ *)
(* State of a target's event loop (AsioDumpTarget)                     *)
(* ------------------------------------------------------------------ *)
\* asynchronous operations started on one target
MaxOps == 5

Targets == {"UDPTarget", "TCPTarget", "HTTPTarget"}
\* the io_service objects: the one the application owns and passes, and
\* the one AsioDumpTarget's constructor creates
Services == {"app", "own"}
\* the threads that call io_service::run(): the application's, on its own
\* io_service, and m_svc_thread, on the one the constructor created
LoopThreads == {"app", "m_svc_thread"}

VARIABLES
    target,          \* the class being constructed
    svc,             \* the constructor's argument: "app" or "nullptr"
    ctor,            \* position of the construction: "base", "derived",
                     \*  "ready"
    m_svc,           \* AsioDumpTarget::m_svc: "none" until the base is built
    m_work,          \* AsioDumpTarget::m_work holds a work object
    m_svc_thread,    \* threads started by the constructor
    started,         \* asynchronous operations started on *m_svc
    ran              \* completion handlers run so far, by thread

loopVars == <<target, svc, ctor, m_svc, m_work, m_svc_thread, started, ran>>

(* ------------------------------------------------------------------ *)
(* State of one URL object                                             *)
(* ------------------------------------------------------------------ *)
\* components a path may have
MaxPath == 2

VARIABLES
    url,             \* the URL: [m_path: [set, parts], m_query: [which,
                     \*  str, kv]]; which = 0: the string, 1: the map
    uout             \* the latest request line written for it:
                     \*  [made, of: the URL then, query, line]

urlVars == <<url, uout>>

exceptSender == <<httpVars, rdVars, jsonVars, dumpVars, loopVars, urlVars>>
exceptHttp == <<senderVars, rdVars, jsonVars, dumpVars, loopVars, urlVars>>
exceptRead == <<senderVars, httpVars, jsonVars, dumpVars, loopVars, urlVars>>
exceptJson == <<senderVars, httpVars, rdVars, dumpVars, loopVars, urlVars>>
exceptDump == <<senderVars, httpVars, rdVars, jsonVars, loopVars, urlVars>>
exceptLoop == <<senderVars, httpVars, rdVars, jsonVars, dumpVars, urlVars>>
exceptUrl == <<senderVars, httpVars, rdVars, jsonVars, dumpVars, loopVars>>

(* ------------------------------------------------------------------ *)
(* Helpers modelling single expressions of the source                  *)
(* ------------------------------------------------------------------ *)
PushFront(q, b) == <<b>> \o q
PushBack(q, b) == Append(q, b)

Back(q) == q[Len(q)]
Front(q) == Head(q)

PopBack(q) == IF q = <<>> THEN q ELSE SubSeq(q, 1, Len(q) - 1)
PopFront(q) == IF q = <<>> THEN q ELSE Tail(q)

CanAttemptAlways(pending) == TRUE
CanAttempt(pending) == ~pending

IsNegative(left) == left < 0

NoWaits == [h \in TimerHandlers |-> 0]

Min(a, b) == IF a < b THEN a ELSE b
Max(a, b) == IF a > b THEN a ELSE b

\* a retry that waits only when it has re-armed the timer: async_wait
\* moved inside the if
TimerArmWaitIfArmed(isneg, d, h) ==
    IF isneg
    THEN /\ m_retry_timer' = [left |-> d, waits |-> [NoWaits EXCEPT ![h] = 1]]
         /\ posted' = [k \in TimerHandlers |->
                          posted[k] + m_retry_timer.waits[k]]
    ELSE UNCHANGED <<m_retry_timer, posted>>

\* if(timer.expires_from_now().is_negative()) timer.expires_from_now(d);
\* timer.async_wait(h);   -- re-arming cancels the outstanding waits, whose
\* handlers are then invoked (with operation_aborted, which they ignore).
TimerArm(isneg, d, h) ==
    IF isneg
    THEN /\ m_retry_timer' = [left |-> d, waits |-> [NoWaits EXCEPT ![h] = 1]]
         /\ posted' = [k \in TimerHandlers |->
                          posted[k] + m_retry_timer.waits[k]]
    ELSE /\ m_retry_timer' = [m_retry_timer EXCEPT !.waits[h] = @ + 1]
         /\ UNCHANGED posted

Goto(t, l) == pc' = [pc EXCEPT ![t] = l]

\* what a caller passes to write(): a string of bytes
Payloads == {<<1>>, <<2, 3>>}
\* what is found in the caller's buffer once the caller has reused it
Junk == <<0>>
NoData == [b \in 1..MaxEnq |-> <<>>]

\* vector<unsigned char> data(asio::buffer_size(buf));
\* asio::buffer_copy(asio::buffer(data), buf);
Copy(buf) == [i \in 1..Len(buf) |-> buf[i]]

\* a queue that keeps a reference to the caller's buffer instead
CallerBytes(h, b) == h.caller

\* asio::buffer(m_queue.front()): the bytes of the queued vector
QueuedBytes(h, b) == h.data[b]

(* ------------------------------------------------------------------ *)
(* Initial state: after the constructor                                *)
(* ------------------------------------------------------------------ *)
InitSender ==
    /\ kind \in Kinds
    /\ m_queue = <<>>
    /\ m_pending = FALSE
    \* TCPTarget's constructor never sets m_connected: any value
    /\ m_connected \in (IF kind = "tcp" THEN BOOLEAN ELSE {FALSE})
    /\ m_pending_mut = NoOne
    /\ m_queue_mut = NoOne
    /\ m_connected_mtx = NoOne
    /\ m_retry_timer = [left |-> 0, waits |-> NoWaits]
    /\ posted = NoWaits
    /\ inflight = <<>>
    /\ connOps = IF kind = "tcp" THEN 1 ELSE 0
    /\ pc = [t \in Threads |-> "idle"]
    /\ loc = [t \in Threads |-> [neg |-> FALSE, buf |-> 0]]
    /\ hist \in {[nEnq |-> 0, attemptLog |-> <<>>, okSet |-> {}, nFail |-> 0,
                  everFailed |-> FALSE, failSince |-> -1, failedBuf |-> 0,
                  gapAtAttempt |-> -1, retryOf |-> 0,
                  linkUp |-> FALSE, lostBuf |-> 0, resent |-> 0,
                  timed |-> t, connFailSince |-> -1,
                  traced |-> c, data |-> NoData, orig |-> NoData,
                  caller |-> <<>>, handed |-> <<>>] : t \in BOOLEAN,
                                                       c \in BOOLEAN}

(* ------------------------------------------------------------------ *)
(* enqueue_send (frame thread)                                         *)
(* ------------------------------------------------------------------ *)
\* the call, and the private copy of the caller's bytes
EnqueueSend ==
    /\ pc["frame"] = "idle"
    /\ hist.nEnq < MaxEnq
    /\ \E buf \in (IF hist.traced THEN Payloads ELSE {<<1>>}) :
           hist' = [hist EXCEPT !.nEnq = @ + 1,
                                !.caller = buf,
                                !.orig[hist.nEnq + 1] = buf,
                                !.data[hist.nEnq + 1] = Copy(buf)]
    /\ loc' = [loc EXCEPT !["frame"].buf = hist.nEnq + 1]
    /\ Goto("frame", "enq_push")
    /\ UNCHANGED <<kind, m_queue, m_pending, m_connected, mutexes, timers,
                   inflight, connOps>>

\* a sender that waits until the socket is free before queueing (a
\* synchronous write): the behaviour enqueue_send is meant to avoid
EnqPushBlocking ==
    /\ pc["frame"] = "enq_push"
    /\ m_queue_mut = NoOne
    /\ inflight = <<>>
    /\ m_queue' = PushBack(m_queue, loc["frame"].buf)
    /\ loc' = [loc EXCEPT !["frame"].buf = 0]
    /\ Goto("frame", "pa_lock_p")
    /\ UNCHANGED <<kind, m_pending, m_connected, mutexes, timers,
                   inflight, connOps, hist>>

\* { lock_guard lck(m_queue_mut); m_queue.push_back(data); } perform_attempt();
EnqPush ==
    /\ pc["frame"] = "enq_push"
    /\ m_queue_mut = NoOne
    /\ m_queue' = PushBack(m_queue, loc["frame"].buf)
    /\ loc' = [loc EXCEPT !["frame"].buf = 0]
    /\ Goto("frame", "pa_lock_p")
    /\ UNCHANGED <<kind, m_pending, m_connected, mutexes, timers,
                   inflight, connOps, hist>>

(* ------------------------------------------------------------------ *)
(* perform_attempt (either thread)                                     *)
(* ------------------------------------------------------------------ *)
\* lock_guard plock(m_pending_mut); if(!m_pending) ...
PA_LockP(t) ==
    /\ pc[t] = "pa_lock_p"
    /\ m_pending_mut = NoOne
    /\ IF CanAttempt(m_pending)
       THEN /\ m_pending_mut' = t
            /\ Goto(t, "pa_lock_q")
       ELSE /\ Goto(t, "idle")
            /\ UNCHANGED m_pending_mut
    /\ UNCHANGED <<kind, m_queue, m_pending, m_connected, m_queue_mut,
                   m_connected_mtx, timers, inflight, connOps, loc, hist>>

\* lock_guard qlock(m_queue_mut); if(m_queue.size() == 0) return;
PA_LockQ(t) ==
    /\ pc[t] = "pa_lock_q"
    /\ m_queue_mut = NoOne
    /\ IF Len(m_queue) = 0
       THEN /\ m_pending_mut' = NoOne
            /\ Goto(t, "idle")
            /\ UNCHANGED m_queue_mut
       ELSE /\ m_queue_mut' = t
            /\ Goto(t, IF kind = "tcp" THEN "as_lock_c" ELSE "as_io")
            /\ UNCHANGED m_pending_mut
    /\ UNCHANGED <<kind, m_queue, m_pending, m_connected,
                   m_connected_mtx, timers, inflight, connOps, loc, hist>>

\* TCPTarget::attempt_send: { lock_guard l(m_connected_mtx);
\*                            if(!m_connected) return false; }
AS_LockC(t) ==
    /\ pc[t] = "as_lock_c"
    /\ m_connected_mtx = NoOne
    /\ Goto(t, IF m_connected THEN "as_io" ELSE "pa_timer_chk")
    /\ hist' = [hist EXCEPT !.everFailed = @ \/ ~m_connected]
    /\ UNCHANGED <<kind, m_queue, m_pending, m_connected, mutexes, timers,
                   inflight, connOps, loc>>

\* attempt_send: async_send_to / async_write of m_queue.front(); return true
AS_IO(t) ==
    /\ pc[t] = "as_io"
    /\ inflight' = Append(inflight, Front(m_queue))
    /\ hist' = [hist EXCEPT !.attemptLog = Append(@, Front(m_queue)),
                            !.gapAtAttempt = hist.failSince,
                            !.retryOf = hist.failedBuf,
                            !.failSince = -1,
                            !.failedBuf = 0,
                            !.lostBuf = 0,
                            !.resent = hist.lostBuf,
                            !.handed = QueuedBytes(hist, Front(m_queue))]
    /\ Goto(t, "pa_set")
    /\ UNCHANGED <<kind, m_queue, m_pending, m_connected, mutexes, timers,
                   connOps, loc>>

\* m_pending = true; and both lock_guards leave scope
PA_Set(t) ==
    /\ pc[t] = "pa_set"
    /\ m_pending' = TRUE
    /\ m_pending_mut' = NoOne
    /\ m_queue_mut' = NoOne
    /\ Goto(t, "idle")
    /\ UNCHANGED <<kind, m_queue, m_connected, m_connected_mtx, timers,
                   inflight, connOps, loc, hist>>

\* attempt_send returned false: m_retry_timer->expires_from_now().is_negative()
PA_TimerChk(t) ==
    /\ pc[t] = "pa_timer_chk"
    /\ loc' = [loc EXCEPT ![t].neg = IsNegative(m_retry_timer.left)]
    /\ Goto(t, "pa_timer_arm")
    /\ UNCHANGED <<kind, m_queue, m_pending, m_connected, mutexes, timers,
                   inflight, connOps, hist>>

\* expires_from_now(seconds(1)); async_wait(perform_attempt); locks released
PA_TimerArm(t) ==
    /\ pc[t] = "pa_timer_arm"
    /\ TimerArm(loc[t].neg, RefuseDelayMs, "attempt")
    /\ loc' = [loc EXCEPT ![t].neg = FALSE]
    /\ m_pending_mut' = NoOne
    /\ m_queue_mut' = NoOne
    /\ Goto(t, "idle")
    /\ UNCHANGED <<kind, m_queue, m_pending, m_connected, m_connected_mtx,
                   inflight, connOps, hist>>

(* ------------------------------------------------------------------ *)
(* Completion of a send (loop thread dispatches the handler)           *)
(* ------------------------------------------------------------------ *)
\* the handler of the oldest outstanding send is invoked with no error
SendOk ==
    /\ pc["loop"] = "idle"
    /\ inflight # <<>>
    /\ inflight' = Tail(inflight)
    /\ hist' = [hist EXCEPT !.okSet = @ \cup {Head(inflight)}]
    /\ Goto("loop", "ots_lock_p")
    /\ UNCHANGED <<kind, m_queue, m_pending, m_connected, mutexes, timers,
                   connOps, loc>>

FailHist(b) == [hist EXCEPT !.nFail = @ + 1, !.everFailed = TRUE,
                            !.failSince = 0, !.failedBuf = b]

\* ... with an error other than connection_reset / broken_pipe
SendErr ==
    /\ pc["loop"] = "idle"
    /\ inflight # <<>>
    /\ hist.nFail < MaxFail
    /\ inflight' = Tail(inflight)
    /\ hist' = FailHist(Head(inflight))
    /\ Goto("loop", "otf_lock_p")
    /\ UNCHANGED <<kind, m_queue, m_pending, m_connected, mutexes, timers,
                   connOps, loc>>

\* the connection was lost while buffer b was being sent
LostHist(b) == [FailHist(b) EXCEPT !.linkUp = FALSE, !.lostBuf = b]

\* ... with connection_reset or broken_pipe (TCPTarget only)
SendReset ==
    /\ pc["loop"] = "idle"
    /\ kind = "tcp"
    /\ inflight # <<>>
    /\ hist.nFail < MaxFail
    /\ inflight' = Tail(inflight)
    /\ hist' = LostHist(Head(inflight))
    /\ Goto("loop", "rst_lock_c")
    /\ UNCHANGED <<kind, m_queue, m_pending, m_connected, mutexes, timers,
                   connOps, loc>>

\* lock m_connected_mtx; m_connected = false; m_sock->async_connect(...)
RST_LockC ==
    /\ pc["loop"] = "rst_lock_c"
    /\ m_connected_mtx = NoOne
    /\ m_connected' = FALSE
    /\ connOps' = connOps + 1
    /\ Goto("loop", "otf_lock_p")
    /\ UNCHANGED <<kind, m_queue, m_pending, mutexes, timers, inflight,
                   loc, hist>>

(* ------------------------------------------------------------------ *)
(* on_transmit_succeed                                                 *)
(* ------------------------------------------------------------------ *)
OTS_LockP ==
    /\ pc["loop"] = "ots_lock_p"
    /\ m_pending_mut = NoOne
    /\ m_pending_mut' = "loop"
    /\ Goto("loop", "ots_lock_q")
    /\ UNCHANGED <<kind, m_queue, m_pending, m_connected, m_queue_mut,
                   m_connected_mtx, timers, inflight, connOps, loc, hist>>

\* m_pending = false; m_queue.pop_front(); unlock; perform_attempt();
OTS_LockQ ==
    /\ pc["loop"] = "ots_lock_q"
    /\ m_queue_mut = NoOne
    /\ m_pending' = FALSE
    /\ m_queue' = PopFront(m_queue)
    /\ hist' = IF m_queue = <<>> THEN hist
               ELSE [hist EXCEPT !.data[Front(m_queue)] = <<>>,
                                 !.orig[Front(m_queue)] = <<>>]
    /\ m_pending_mut' = NoOne
    /\ Goto("loop", "pa_lock_p")
    /\ UNCHANGED <<kind, m_connected, m_queue_mut, m_connected_mtx, timers,
                   inflight, connOps, loc>>

(* ------------------------------------------------------------------ *)
(* on_transmit_fail                                                    *)
(* ------------------------------------------------------------------ *)
OTF_LockP ==
    /\ pc["loop"] = "otf_lock_p"
    /\ m_pending_mut = NoOne
    /\ m_pending' = FALSE
    /\ Goto("loop", "otf_timer_chk")
    /\ UNCHANGED <<kind, m_queue, m_connected, mutexes, timers, inflight,
                   connOps, loc, hist>>

OTF_TimerChk ==
    /\ pc["loop"] = "otf_timer_chk"
    /\ loc' = [loc EXCEPT !["loop"].neg = IsNegative(m_retry_timer.left)]
    /\ Goto("loop", "otf_timer_arm")
    /\ UNCHANGED <<kind, m_queue, m_pending, m_connected, mutexes, timers,
                   inflight, connOps, hist>>

OTF_TimerArm ==
    /\ pc["loop"] = "otf_timer_arm"
    /\ TimerArm(loc["loop"].neg, FailDelayMs, "attempt")
    /\ loc' = [loc EXCEPT !["loop"].neg = FALSE]
    /\ Goto("loop", "idle")
    /\ UNCHANGED <<kind, m_queue, m_pending, m_connected, mutexes, inflight,
                   connOps, hist>>

(* ------------------------------------------------------------------ *)
(* TCPTarget::handle_connect_result                                    *)
(* ------------------------------------------------------------------ *)
ConnectOk ==
    /\ pc["loop"] = "idle"
    /\ connOps > 0
    /\ connOps' = connOps - 1
    /\ hist' = [hist EXCEPT !.linkUp = TRUE]
    /\ Goto("loop", "hcr_ok")
    /\ UNCHANGED <<kind, m_queue, m_pending, m_connected, mutexes, timers,
                   inflight, loc>>

HCR_Ok ==
    /\ pc["loop"] = "hcr_ok"
    /\ m_connected_mtx = NoOne
    /\ m_connected' = TRUE
    /\ Goto("loop", "idle")
    /\ UNCHANGED <<kind, m_queue, m_pending, mutexes, timers, inflight,
                   connOps, loc, hist>>

ConnectFail ==
    /\ pc["loop"] = "idle"
    /\ connOps > 0
    /\ connOps' = connOps - 1
    /\ hist' = [hist EXCEPT !.connFailSince =
                    IF hist.timed /\ @ = -1 THEN 0 ELSE @]
    /\ Goto("loop", "hcr_timer_chk")
    /\ UNCHANGED <<kind, m_queue, m_pending, m_connected, mutexes, timers,
                   inflight, loc>>

HCR_TimerChk ==
    /\ pc["loop"] = "hcr_timer_chk"
    /\ loc' = [loc EXCEPT !["loop"].neg = IsNegative(m_retry_timer.left)]
    /\ Goto("loop", "hcr_timer_arm")
    /\ UNCHANGED <<kind, m_queue, m_pending, m_connected, mutexes, timers,
                   inflight, connOps, hist>>

HCR_TimerArm ==
    /\ pc["loop"] = "hcr_timer_arm"
    /\ TimerArm(loc["loop"].neg, ReconnectDelayMs, "connect")
    /\ loc' = [loc EXCEPT !["loop"].neg = FALSE]
    /\ Goto("loop", "idle")
    /\ UNCHANGED <<kind, m_queue, m_pending, m_connected, mutexes, inflight,
                   connOps, hist>>

(* ------------------------------------------------------------------ *)
(* m_retry_timer's wait handlers, and the passage of time              *)
(* ------------------------------------------------------------------ *)
\* a wait handler that returns without doing anything
RunWaitHandlerIdle(h) == UNCHANGED <<connOps, pc>>

\* what the lambda given to async_wait does
RunWaitHandler(h) ==
    IF h = "attempt"
    THEN Goto("loop", "pa_lock_p") /\ UNCHANGED connOps
    ELSE connOps' = connOps + 1 /\ UNCHANGED pc

\* history: the clock of the oldest connect failure stops once no retry of
\* a connect is waiting any more
WaitHist(h, tm, po) ==
    IF h = "connect" /\ tm.waits["connect"] + po["connect"] = 0
    THEN [hist EXCEPT !.connFailSince = -1]
    ELSE hist

\* the timer has expired: one of its wait handlers runs
TimerFire(h) ==
    /\ pc["loop"] = "idle"
    /\ m_retry_timer.left <= 0
    /\ m_retry_timer.waits[h] > 0
    /\ m_retry_timer' = [m_retry_timer EXCEPT !.waits[h] = @ - 1]
    /\ RunWaitHandler(h)
    /\ hist' = WaitHist(h, m_retry_timer', posted)
    /\ UNCHANGED <<kind, m_queue, m_pending, m_connected, mutexes, posted,
                   inflight, loc>>

\* a wait handler cancelled by a re-arm runs
PostedRun(h) ==
    /\ pc["loop"] = "idle"
    /\ posted[h] > 0
    /\ posted' = [posted EXCEPT ![h] = @ - 1]
    /\ RunWaitHandler(h)
    /\ hist' = WaitHist(h, m_retry_timer, posted')
    /\ UNCHANGED <<kind, m_queue, m_pending, m_connected, mutexes,
                   m_retry_timer, inflight, loc>>

\* time until the next observation of the clock
TickLen(left) ==
    IF left <= 0 THEN TickMs
    ELSE left - CHOOSE b \in Breaks :
                   b < left /\ \A c \in Breaks : c < left => c <= b

Tick ==
    /\ m_retry_timer' = [m_retry_timer EXCEPT
            !.left = Max(@ - TickLen(m_retry_timer.left), 0 - TickMs)]
    /\ hist' = [hist EXCEPT
            !.failSince =
                IF @ = -1 THEN -1
                ELSE Min(@ + TickLen(m_retry_timer.left), FailDelayMs),
            !.connFailSince =
                IF @ = -1 THEN -1
                ELSE Min(@ + TickLen(m_retry_timer.left), ReconnectDelayMs)]
    /\ UNCHANGED <<kind, m_queue, m_pending, m_connected, mutexes, posted,
                   inflight, connOps, pc, loc>>

\* after write() has returned the caller reuses or frees its buffer (in
\* Metadumper::accept the temporary strm.str() is destroyed)
CallerScribble ==
    /\ pc["frame"] = "idle"
    /\ hist.caller \in Payloads
    /\ hist' = [hist EXCEPT !.caller = Junk]
    /\ UNCHANGED <<kind, m_queue, m_pending, m_connected, mutexes, timers,
                   inflight, connOps, pc, loc>>

NextSender ==
    \/ EnqueueSend /\ UNCHANGED exceptSender
    \/ EnqPush /\ UNCHANGED exceptSender
    \/ \E t \in Threads : PA_LockP(t) /\ UNCHANGED exceptSender
    \/ \E t \in Threads : PA_LockQ(t) /\ UNCHANGED exceptSender
    \/ \E t \in Threads : AS_LockC(t) /\ UNCHANGED exceptSender
    \/ \E t \in Threads : AS_IO(t) /\ UNCHANGED exceptSender
    \/ \E t \in Threads : PA_Set(t) /\ UNCHANGED exceptSender
    \/ \E t \in Threads : PA_TimerChk(t) /\ UNCHANGED exceptSender
    \/ \E t \in Threads : PA_TimerArm(t) /\ UNCHANGED exceptSender
    \/ SendOk /\ UNCHANGED exceptSender
    \/ SendErr /\ UNCHANGED exceptSender
    \/ SendReset /\ UNCHANGED exceptSender
    \/ RST_LockC /\ UNCHANGED exceptSender
    \/ OTS_LockP /\ UNCHANGED exceptSender
    \/ OTS_LockQ /\ UNCHANGED exceptSender
    \/ OTF_LockP /\ UNCHANGED exceptSender
    \/ OTF_TimerChk /\ UNCHANGED exceptSender
    \/ OTF_TimerArm /\ UNCHANGED exceptSender
    \/ ConnectOk /\ UNCHANGED exceptSender
    \/ HCR_Ok /\ UNCHANGED exceptSender
    \/ ConnectFail /\ UNCHANGED exceptSender
    \/ HCR_TimerChk /\ UNCHANGED exceptSender
    \/ HCR_TimerArm /\ UNCHANGED exceptSender
    \/ \E h \in TimerHandlers : TimerFire(h) /\ UNCHANGED exceptSender
    \/ \E h \in TimerHandlers : PostedRun(h) /\ UNCHANGED exceptSender
    \/ Tick /\ UNCHANGED exceptSender

(* ================================================================== *)
(* Properties of the Queued Socket Sender                              *)
(* ================================================================== *)
Range(q) == {q[i] : i \in DOMAIN q}

\* C1: in every reachable state at most one transmission attempt (an async
\* send issued whose completion handler has not yet been invoked) is in
\* flight, whatever the interleaving of enqueue_send on the frame thread
\* with completions and retry-timer callbacks on the loop thread.
C1_AtMostOneAttemptInFlight == Len(inflight) <= 1

\* a send is in flight while the frame thread is inside perform_attempt,
\* with more buffers queued behind it and after a failure was retried
C1_Witness ==
    /\ Len(inflight) = 1
    /\ Len(m_queue) >= 2
    /\ hist.nFail > 0
    /\ pc["frame"] = "pa_lock_p"

Quiescent ==
    /\ \A t \in Threads : pc[t] = "idle"
    /\ inflight = <<>>

\* C2: while the transport has reported nothing but success, the attempts
\* made are the enqueued buffers 1, 2, ... in enqueue order, each exactly
\* once, an attempt is issued only after the completion of the previous one
\* was observed, and once everything has run the number of attempts is the
\* number of enqueue_send calls and the queue is empty.
C2_FifoExactlyOnce ==
    ~hist.everFailed =>
        /\ \A i \in DOMAIN hist.attemptLog : hist.attemptLog[i] = i
        /\ Len(hist.attemptLog) <= Cardinality(hist.okSet) + 1
        /\ Len(inflight) <= 1
        /\ Quiescent => /\ Len(hist.attemptLog) = hist.nEnq
                        /\ m_queue = <<>>

C2_Witness ==
    /\ ~hist.everFailed
    /\ Quiescent
    /\ hist.nEnq = MaxEnq
    /\ Len(hist.attemptLog) = MaxEnq
    /\ m_queue = <<>>

\* C3 (as claimed): an attempt that follows a reported failure is issued
\* no earlier than FailDelayMs after that failure.
C3_BackoffElapsedBeforeRetry ==
    hist.gapAtAttempt = -1 \/ hist.gapAtAttempt >= FailDelayMs

\* C4: after a reported failure the failed buffer stays at the head of the
\* queue, and the next attempt issued carries that same buffer, whatever
\* was enqueued in between.
C4_SameBufferRetried ==
    /\ hist.failedBuf # 0 =>
            m_queue # <<>> /\ Head(m_queue) = hist.failedBuf
    /\ hist.retryOf # 0 =>
            hist.attemptLog[Len(hist.attemptLog)] = hist.retryOf

\* a retry has been issued while other buffers were queued behind it
C4_Witness ==
    /\ hist.retryOf # 0
    /\ Len(m_queue) >= 2
    /\ Len(inflight) = 1

\* C5: every buffer that was queued and is no longer in the queue has had
\* a send of that very buffer reported successful.
C5_RemovedOnlyAfterSuccess ==
    \A b \in 1..hist.nEnq :
        (b # loc["frame"].buf /\ b \notin Range(m_queue)) => b \in hist.okSet

\* a buffer was removed after failures, behind it others still queued
C5_Witness ==
    /\ hist.nFail > 0
    /\ m_queue # <<>>
    /\ 1 \notin Range(m_queue)
    /\ 1 \in hist.okSet

(* ================================================================== *)
(* HTTPConnection / HTTPTarget (src/unnamed/part_003)                  *)
(* ================================================================== *)

NoConn == [key |-> "", creator |-> 0, sock |-> "unopened",
           m_pending |-> FALSE, m_queue |-> <<>>, m_work |-> 0,
           m_queue_mut |-> NoOne, ios |-> <<>>, cop |-> "none",
           sentLog |-> <<>>, torn |-> "none", rfail |-> FALSE,
           cfail |-> FALSE, lastResp |-> "none", perr |-> 0, bare |-> {},
           pushLog |-> <<>>, m_response |-> "null", rdNull |-> FALSE]

\* history: a member of connection cn was read or written by a thread
\* that does not hold cn's m_queue_mut
Unguarded(cn, member) == [cn EXCEPT !.bare = @ \cup {member}]

InitHttp ==
    /\ m_enable_keepalive \in BOOLEAN
    /\ m_conns = [k \in Keys |-> 0]
    /\ m_active_conns = {}
    /\ m_conns_mtx = NoOne
    /\ conn = [c \in ConnIds |-> NoConn]
    /\ nConn = 0
    /\ req = [r \in Reqs |-> [key |-> ""]]
    /\ nReq = 0
    /\ calls = [r \in Reqs |-> <<>>]
    /\ hpc = [t \in Threads |-> "idle"]
    /\ hloc = [t \in Threads |-> [c |-> 0, r |-> 0]]

HGoto(t, l) == hpc' = [hpc EXCEPT ![t] = l]
HReturn(t) ==
    /\ hpc' = [hpc EXCEPT ![t] = "idle"]
    /\ hloc' = [hloc EXCEPT ![t] = [c |-> 0, r |-> 0]]

\* the handler given to submit is invoked with v ("null" or "resp")
Invoke(r, v) == [calls EXCEPT ![r] = Append(@, v)]
\* for(i in m_queue) i->second(ec, nullptr);
InvokeAll(q, v) == [r \in Reqs |->
                      IF r \in Range(q) THEN Append(calls[r], v) ELSE calls[r]]

(* ------------------------------------------------------------------ *)
(* HTTPTarget::submit / get_conn (frame thread)                        *)
(* ------------------------------------------------------------------ *)
\* the hosts submit is called with: without connection reuse the key is
\* never read (dispose_conn removes by connection), so one host stands
\* for all
SubmitKeys == IF m_enable_keepalive THEN Keys
              ELSE {CHOOSE k \in Keys : TRUE}

\* the request's headers are read only by on_header_recvd: which
\* Content-Length it carries is drawn there, when first read
Submit(k) ==
    /\ hpc["frame"] = "idle"
    /\ nReq < MaxReq
    /\ nReq' = nReq + 1
    /\ req' = [req EXCEPT ![nReq + 1] = [key |-> k]]
    /\ hloc' = [hloc EXCEPT !["frame"] = [c |-> 0, r |-> nReq + 1]]
    /\ HGoto("frame", IF m_enable_keepalive THEN "gc_lookup" ELSE "gc_new")
    /\ UNCHANGED <<m_enable_keepalive, m_conns, m_active_conns, m_conns_mtx,
                   conn, nConn, calls>>

\* lock m_conns_mtx; itr = m_conns.find(key); on a hit the handler runs
\* (c->async_request) with the mutex still held
GC_Lookup ==
    /\ hpc["frame"] = "gc_lookup"
    /\ m_conns_mtx = NoOne
    /\ LET c == m_conns[req[hloc["frame"].r].key] IN
       IF c # 0
       THEN /\ m_conns_mtx' = "frame"
            /\ hloc' = [hloc EXCEPT !["frame"].c = c]
            /\ HGoto("frame", "ar_push")
       ELSE /\ HGoto("frame", "gc_new")
            /\ UNCHANGED <<m_conns_mtx, hloc>>
    /\ UNCHANGED <<m_enable_keepalive, m_conns, m_active_conns, conn, nConn,
                   req, nReq, calls>>

\* conn = new HTTPConnection; lock; m_conns[key] = conn or
\* m_active_conns.push_back(conn); unlock; m_resolver.async_resolve(...)
GC_New ==
    /\ hpc["frame"] = "gc_new"
    /\ m_conns_mtx = NoOne
    /\ LET r == hloc["frame"].r
           c == nConn + 1 IN
       /\ nConn' = c
       /\ conn' = [conn EXCEPT ![c] = [NoConn EXCEPT !.key = req[r].key,
                                                     !.creator = r,
                                                     !.cop = "resolve"]]
       /\ IF m_enable_keepalive
          THEN /\ m_conns' = [m_conns EXCEPT ![req[r].key] = c]
               /\ UNCHANGED m_active_conns
          ELSE /\ m_active_conns' = m_active_conns \cup {c}
               /\ UNCHANGED m_conns
    /\ HReturn("frame")
    /\ UNCHANGED <<m_enable_keepalive, m_conns_mtx, req, nReq, calls>>

\* the lock_guard of get_conn's reuse branch leaves scope
GC_Unlock ==
    /\ hpc["frame"] = "gc_unlock"
    /\ m_conns_mtx' = NoOne
    /\ HReturn("frame")
    /\ UNCHANGED <<m_enable_keepalive, m_conns, m_active_conns, conn, nConn,
                   req, nReq, calls>>

(* ------------------------------------------------------------------ *)
(* HTTPConnection::async_request / attempt_request (either thread)     *)
(* ------------------------------------------------------------------ *)
\* { lock_guard lck(m_queue_mut); m_queue.push_back(...); }
AR_Push(t) ==
    /\ hpc[t] = "ar_push"
    /\ conn[hloc[t].c].m_queue_mut = NoOne
    /\ conn' = [conn EXCEPT ![hloc[t].c].m_queue = PushBack(@, hloc[t].r),
                            ![hloc[t].c].pushLog = Append(@, hloc[t].r)]
    /\ HGoto(t, "at_lock")
    /\ UNCHANGED <<m_enable_keepalive, m_conns, m_active_conns, m_conns_mtx,
                   nConn, req, nReq, calls, hloc>>

PendingNeverBlocks(pending) == FALSE
\* if(m_pending) return;
PendingBlocks(pending) == pending

\* what asio::async_write starts on a socket in state sock: on a socket
\* that is not open it completes at once with bad_descriptor
WriteOp(sock) == IF sock \in {"unopened", "closed"} THEN "write_bad"
                 ELSE "write"

\* where the thread continues after attempt_request returns
AfterAttempt(t) == IF t = "frame" THEN "gc_unlock" ELSE "idle"

\* attempt_request: under m_queue_mut take the head of the backlog, then
\* async_write the encoded request
AT_Lock(t) ==
    /\ hpc[t] = "at_lock"
    /\ LET c == hloc[t].c IN
       /\ conn[c].m_queue_mut = NoOne
       /\ IF PendingBlocks(conn[c].m_pending) \/ Len(conn[c].m_queue) = 0
          THEN UNCHANGED conn
          ELSE conn' = [conn EXCEPT
                  ![c].m_work = Front(conn[c].m_queue),
                  ![c].m_queue = PopFront(@),
                  ![c].m_pending = TRUE,
                  ![c].sentLog = Append(@, Front(conn[c].m_queue)),
                  ![c].ios = Append(@, [op |-> WriteOp(conn[c].sock),
                                        r |-> Front(conn[c].m_queue)])]
    /\ IF t = "frame"
       THEN HGoto(t, AfterAttempt(t)) /\ UNCHANGED hloc
       ELSE HReturn(t)
    /\ UNCHANGED <<m_enable_keepalive, m_conns, m_active_conns, m_conns_mtx,
                   nConn, req, nReq, calls>>

(* ------------------------------------------------------------------ *)
(* get_conn's resolve and connect handlers (loop thread)               *)
(* ------------------------------------------------------------------ *)
\* async_resolve fails: dispose_conn(key, conn); the handler is not called
H_ResolveFail(c) ==
    /\ hpc["loop"] = "idle"
    /\ conn[c].cop = "resolve"
    /\ conn' = [conn EXCEPT ![c].cop = "none", ![c].rfail = TRUE]
    /\ hloc' = [hloc EXCEPT !["loop"] = [c |-> c, r |-> 0]]
    /\ HGoto("loop", "dispose")
    /\ UNCHANGED <<m_enable_keepalive, m_conns, m_active_conns, m_conns_mtx,
                   nConn, req, nReq, calls>>

\* async_resolve succeeds: conn->async_connect(*r, ..., on_close)
H_ResolveOk(c) ==
    /\ hpc["loop"] = "idle"
    /\ conn[c].cop = "resolve"
    /\ conn' = [conn EXCEPT ![c].cop = "connect", ![c].sock = "connecting"]
    /\ UNCHANGED <<m_enable_keepalive, m_conns, m_active_conns, m_conns_mtx,
                   nConn, req, nReq, calls, hpc, hloc>>

\* the connect fails: handler(e, nullptr); dispose_conn(key, conn);
H_ConnectFail(c) ==
    /\ hpc["loop"] = "idle"
    /\ conn[c].cop = "connect"
    /\ conn' = [conn EXCEPT ![c].cop = "none", ![c].sock = "failed",
                            ![c].cfail = TRUE]
    /\ calls' = Invoke(conn[c].creator, "null")
    /\ hloc' = [hloc EXCEPT !["loop"] = [c |-> c, r |-> 0]]
    /\ HGoto("loop", "dispose")
    /\ UNCHANGED <<m_enable_keepalive, m_conns, m_active_conns, m_conns_mtx,
                   nConn, req, nReq>>

\* the connect succeeds: handler(e, conn), which calls c->async_request
H_ConnectOk(c) ==
    /\ hpc["loop"] = "idle"
    /\ conn[c].cop = "connect"
    /\ conn' = [conn EXCEPT ![c].cop = "none", ![c].sock = "connected"]
    /\ hloc' = [hloc EXCEPT !["loop"] = [c |-> c, r |-> conn[c].creator]]
    /\ HGoto("loop", "ar_push")
    /\ UNCHANGED <<m_enable_keepalive, m_conns, m_active_conns, m_conns_mtx,
                   nConn, req, nReq, calls>>

(* ------------------------------------------------------------------ *)
(* fail_request / finish_request                                       *)
(* ------------------------------------------------------------------ *)
\* fail_request(ec) entered by the handler of connection c's oldest
\* outstanding read or write.  fatal: ec is connection_reset, broken_pipe
\* or eof: the backlog is failed next; else m_work.second(ec, nullptr) and
\* finish_request
FailRequest(c, fatal) ==
    /\ hloc' = [hloc EXCEPT !["loop"] = [c |-> c, r |-> 0]]
    /\ IF fatal
       THEN /\ HGoto("loop", "ff_failq")
            /\ UNCHANGED calls
       ELSE /\ HGoto("loop", "fin_lock")
            /\ calls' = Invoke(conn[c].m_work, "null")

\* finish_request: lock; m_pending = false; m_work = (nullptr, {}); unlock;
\* attempt_request()
FIN_Lock ==
    /\ hpc["loop"] = "fin_lock"
    /\ conn[hloc["loop"].c].m_queue_mut = NoOne
    /\ conn' = [conn EXCEPT ![hloc["loop"].c].m_pending = FALSE,
                            ![hloc["loop"].c].m_work = 0]
    /\ HGoto("loop", "at_lock")
    /\ UNCHANGED <<m_enable_keepalive, m_conns, m_active_conns, m_conns_mtx,
                   nConn, req, nReq, calls, hloc>>

\* fail_request, dead connection: { lock_guard m(m_queue_mut);
\*   for(i in m_queue) i->second(ec, nullptr);
\* the handlers (submit's lambda, then the one given to submit) run with
\* m_queue_mut held
FF_FailQ ==
    /\ hpc["loop"] = "ff_failq"
    /\ conn[hloc["loop"].c].m_queue_mut = NoOne
    /\ conn' = [conn EXCEPT ![hloc["loop"].c].m_queue_mut = "loop"]
    /\ calls' = InvokeAll(conn[hloc["loop"].c].m_queue, "null")
    /\ HGoto("loop", "ff_unlock")
    /\ UNCHANGED <<m_enable_keepalive, m_conns, m_active_conns, m_conns_mtx,
                   nConn, req, nReq, hloc>>

\* a fail_request whose lock_guard lives until the function returns, so
\* that m_sock.close() and m_onclose() run under m_queue_mut
FailScopeKept(t) == t
\* the owner of m_queue_mut once the block of the lock_guard is left
FailScopeLeft(t) == NoOne

\* } the block of the lock_guard ends before m_sock.close()
FF_Unlock ==
    /\ hpc["loop"] = "ff_unlock"
    /\ conn' = [conn EXCEPT
                   ![hloc["loop"].c].m_queue_mut = FailScopeLeft("loop")]
    /\ HGoto("loop", "ff_close")
    /\ UNCHANGED <<m_enable_keepalive, m_conns, m_active_conns, m_conns_mtx,
                   nConn, req, nReq, calls, hloc>>

\* m_sock.close(); m_onclose() enters dispose_conn
FF_Close ==
    /\ hpc["loop"] = "ff_close"
    /\ conn' = [conn EXCEPT ![hloc["loop"].c].sock = "closed",
                            ![hloc["loop"].c].torn = "fatal"]
    /\ HGoto("loop", "dispose")
    /\ UNCHANGED <<m_enable_keepalive, m_conns, m_active_conns, m_conns_mtx,
                   nConn, req, nReq, calls, hloc>>

\* HTTPTarget::dispose_conn: lock m_conns_mtx; m_conns.erase(key) or
\* m_active_conns.remove(conn)
Dispose ==
    /\ hpc["loop"] = "dispose"
    /\ m_conns_mtx = NoOne
    /\ IF m_enable_keepalive
       THEN /\ m_conns' = [m_conns EXCEPT ![conn[hloc["loop"].c].key] = 0]
            /\ UNCHANGED m_active_conns
       ELSE /\ m_active_conns' = m_active_conns \ {hloc["loop"].c}
            /\ UNCHANGED m_conns
    /\ HReturn("loop")
    /\ UNCHANGED <<m_enable_keepalive, m_conns_mtx, conn, nConn, req, nReq,
                   calls>>

(* ------------------------------------------------------------------ *)
(* Completion handlers of the socket reads and writes (loop thread)    *)
(* ------------------------------------------------------------------ *)
\* the oldest outstanding read or write of connection c
Op(c) == Head(conn[c].ios)
HasOp(c, ops) == conn[c].ios # <<>> /\ Op(c).op \in ops

\* async_write completed without error: m_recv_buffer.consume(...);
\* async_read_until(m_sock, m_recv_buffer, "\r\n\r\n", on_header_recvd)
H_WriteOk(c) ==
    /\ hpc["loop"] = "idle"
    /\ HasOp(c, {"write"})
    /\ conn[c].sock = "connected"
    /\ conn' = [conn EXCEPT ![c].ios =
                   Append(Tail(@), [op |-> "hdr", r |-> Op(c).r])]
    /\ UNCHANGED <<m_enable_keepalive, m_conns, m_active_conns, m_conns_mtx,
                   nConn, req, nReq, calls, hpc, hloc>>

\* the errors a write can complete with, by the state of the socket: a
\* write on a socket whose connect is in progress waits for the connect
WriteCanFail(c, fatal) ==
    \/ Op(c).op = "write_bad" /\ ~fatal
    \/ Op(c).op = "write" /\ conn[c].sock \in {"connected", "failed"}
    \/ Op(c).op = "write" /\ conn[c].sock = "closed" /\ ~fatal

\* async_write completed with an error: fail_request(ec)
H_WriteErr(c, fatal) ==
    /\ hpc["loop"] = "idle"
    /\ HasOp(c, {"write", "write_bad"})
    /\ WriteCanFail(c, fatal)
    /\ conn' = [conn EXCEPT ![c].ios = Tail(@)]
    /\ FailRequest(c, fatal)
    /\ UNCHANGED <<m_enable_keepalive, m_conns, m_active_conns, m_conns_mtx,
                   nConn, req, nReq>>

\* on_header_recvd(ec, n) with an error
H_HdrErr(c, fatal) ==
    /\ hpc["loop"] = "idle"
    /\ HasOp(c, {"hdr"})
    /\ conn' = [conn EXCEPT ![c].ios = Tail(@)]
    /\ FailRequest(c, fatal)
    /\ UNCHANGED <<m_enable_keepalive, m_conns, m_active_conns, m_conns_mtx,
                   nConn, req, nReq>>

IsFatalAlways(ec) == TRUE
\* ec == connection_reset || ec == broken_pipe || ec == eof
IsFatal(ec) == ec \in {"connection_reset", "broken_pipe", "eof"}

\* on_header_recvd without error.  accepted: the status line received
\* passes the version and status-code tests.  The header lines are those
\* of m_temp_buffer, the request in flight: its Content-Length decides the
\* body framing.  persists: the response received is HTTP/1.1 and carries
\* no Connection: close.  A parse error ends in fail_request(ec) with the
\* ec of the read, which is no error; perr records the request it failed.
H_HdrRecvd(c, accepted, cl, persists) ==
    /\ hpc["loop"] = "idle"
    /\ HasOp(c, {"hdr"})
    /\ IF accepted /\ cl # "invalid"
       THEN /\ conn' = [conn EXCEPT ![c].ios = Append(Tail(@),
                          [op |-> IF cl = "valid" THEN "body_n"
                                  ELSE "body_eof",
                           r |-> Op(c).r,
                           persists |-> persists]),
                          ![c].m_response = "owned"]
            /\ UNCHANGED <<calls, hpc, hloc>>
       ELSE /\ conn' = [conn EXCEPT ![c].ios = Tail(@),
                                    ![c].perr = Op(c).r,
                                    \* m_response is made before the
                                    \* Content-Length is parsed
                                    ![c].m_response =
                                        IF accepted THEN "owned" ELSE @]
            /\ FailRequest(c, IsFatal("success"))
    /\ UNCHANGED <<m_enable_keepalive, m_conns, m_active_conns, m_conns_mtx,
                   nConn, req, nReq>>

\* on_body_recvd with an error; a read to end-of-stream ends with eof
H_BodyErr(c, fatal) ==
    /\ hpc["loop"] = "idle"
    /\ HasOp(c, {"body_n", "body_eof"})
    /\ conn' = [conn EXCEPT ![c].ios = Tail(@)]
    /\ FailRequest(c, fatal)
    /\ UNCHANGED <<m_enable_keepalive, m_conns, m_active_conns, m_conns_mtx,
                   nConn, req, nReq>>

\* what the response read by the body read op says about the connection
RespKind(op) == IF op.persists THEN "persist" ELSE "close"

\* on_body_recvd without error: m_response->body_mut() is filled, then
\* m_work.second(ec, move(m_response)) leaves m_response null; then
\* finish_request() if http_version == 11 (and keep-alive), else
\* m_sock.close() and the backlog is failed.  The right operand of
\* `http_version == 11 && m_response->headers()...` dereferences
\* m_response after the move; it is evaluated only when the left one holds.
H_BodyOk(c) ==
    /\ hpc["loop"] = "idle"
    /\ HasOp(c, {"body_n"})
    /\ calls' = Invoke(conn[c].m_work, "resp")
    /\ hloc' = [hloc EXCEPT !["loop"] = [c |-> c, r |-> 0]]
    /\ IF http_version = 11
       THEN /\ conn' = [conn EXCEPT ![c].ios = Tail(@),
                                    ![c].lastResp = RespKind(Op(c)),
                                    ![c].m_response = "null",
                                    ![c].rdNull = TRUE]
            /\ HGoto("loop", "fin_lock")
       ELSE /\ conn' = [conn EXCEPT ![c].ios = Tail(@),
                                    ![c].lastResp = RespKind(Op(c)),
                                    ![c].sock = "closed",
                                    ![c].torn = "close",
                                    ![c].m_response = "null",
                                    ![c].rdNull =
                                        @ \/ conn[c].m_response # "owned"]
            /\ HGoto("loop", "b_failq")
    /\ UNCHANGED <<m_enable_keepalive, m_conns, m_active_conns, m_conns_mtx,
                   nConn, req, nReq>>

\* on_body_recvd: for(i in m_queue) i->second(eof, nullptr); m_onclose();
\* m_queue_mut is not taken
B_FailQ ==
    /\ hpc["loop"] = "b_failq"
    /\ calls' = InvokeAll(conn[hloc["loop"].c].m_queue, "null")
    /\ conn' = [conn EXCEPT ![hloc["loop"].c] = Unguarded(@, "m_queue")]
    /\ HGoto("loop", "dispose")
    /\ UNCHANGED <<m_enable_keepalive, m_conns, m_active_conns, m_conns_mtx,
                   nConn, req, nReq, hloc>>

NextHttp ==
    \/ \E k \in SubmitKeys : Submit(k) /\ UNCHANGED exceptHttp
    \/ GC_Lookup /\ UNCHANGED exceptHttp
    \/ GC_New /\ UNCHANGED exceptHttp
    \/ GC_Unlock /\ UNCHANGED exceptHttp
    \/ \E t \in Threads : AR_Push(t) /\ UNCHANGED exceptHttp
    \/ \E t \in Threads : AT_Lock(t) /\ UNCHANGED exceptHttp
    \/ \E c \in ConnIds : H_ResolveFail(c) /\ UNCHANGED exceptHttp
    \/ \E c \in ConnIds : H_ResolveOk(c) /\ UNCHANGED exceptHttp
    \/ \E c \in ConnIds : H_ConnectFail(c) /\ UNCHANGED exceptHttp
    \/ \E c \in ConnIds : H_ConnectOk(c) /\ UNCHANGED exceptHttp
    \/ FIN_Lock /\ UNCHANGED exceptHttp
    \/ FF_FailQ /\ UNCHANGED exceptHttp
    \/ FF_Unlock /\ UNCHANGED exceptHttp
    \/ FF_Close /\ UNCHANGED exceptHttp
    \/ Dispose /\ UNCHANGED exceptHttp
    \/ \E c \in ConnIds : H_WriteOk(c) /\ UNCHANGED exceptHttp
    \/ \E c \in ConnIds, fatal \in BOOLEAN : H_WriteErr(c, fatal) /\ UNCHANGED exceptHttp
    \/ \E c \in ConnIds, fatal \in BOOLEAN : H_HdrErr(c, fatal) /\ UNCHANGED exceptHttp
    \/ \E c \in ConnIds, accepted \in BOOLEAN, cl \in ReqCL, persists \in BOOLEAN :
            H_HdrRecvd(c, accepted, cl, persists) /\ UNCHANGED exceptHttp
    \/ \E c \in ConnIds, fatal \in BOOLEAN : H_BodyErr(c, fatal) /\ UNCHANGED exceptHttp
    \/ \E c \in ConnIds : H_BodyOk(c) /\ UNCHANGED exceptHttp
    \/ B_FailQ /\ UNCHANGED exceptHttp

(* ================================================================== *)
(* One response read on an HTTPConnection, at the level of bytes        *)
(* (on_header_recvd / on_body_recvd, src/unnamed/part_003 131-260)      *)
(* ================================================================== *)
BodiesOfLen(n) == [1..n -> Bytes]
Bodies == UNION {BodiesOfLen(n) : n \in 0..MaxBody}
Codes == [1..3 -> CodeChars]

\* character codes
Ord(ch) == CASE ch = "2" -> 50 [] ch = "x" -> 120 [] ch = " " -> 32

\* code.d[i] = line0[9 + i] - '0', stored in an unsigned char
Digit(ch) == (Ord(ch) - 48) % 256

\* line0.compare(0, 9, "HTTP/1.1 ") != 0 && line0.compare(0, 9, "HTTP/1.0 ") != 0
VersionRejected(prefix) == prefix # "HTTP/1.1 " /\ prefix # "HTTP/1.0 "

\* code.d[0] > 9 && code.d[1] > 9 && code.d[2] > 9
CodeRejected(code) ==
    Digit(code[1]) > 9 /\ Digit(code[2]) > 9 /\ Digit(code[3]) > 9

StatusAccepted(prefix, code) ==
    ~VersionRejected(prefix) /\ ~CodeRejected(code)

\* size of the vector made by new vector<unsigned char>()
NewVectorSize == 0

\* vector::reserve(n) on a vector of the given size: the size is unchanged
SizeAfterReserve(size, n) == size

\* asio::buffer_copy into a buffer of dstSize bytes: what arrives there
BufferCopy(dstSize, src) == SubSeq(src, 1, Min(dstSize, Len(src)))

\* a header set, by the Content-Length it holds
NoHeaders == [clen |-> NoLen]
\* the header lines of the block the peer sent
ReceivedHeaders(r) == [clen |-> r.clen]

\* The header lines on_header_recvd parses.  temp is filled with the bytes
\* received, but the loop that cuts lines at CR LF runs over m_temp_buffer,
\* which still holds the encoded request: the first line is the received
\* block followed by the request line, and the remaining lines are the
\* header lines of the request.
ParsedHeaders(request, received) == request

InitRead ==
    /\ rq \in [clen : {NoLen, BadLen} \cup (0..MaxBody)]
    /\ rs \in {r \in [prefix : Prefixes, code : Codes,
                      clen : {NoLen} \cup (0..MaxBody), body : Bodies] :
                  r.clen # NoLen => Len(r.body) = r.clen}
    /\ sockIn = <<>>
    /\ peerClosed = FALSE
    /\ m_recv_buffer = <<>>
    /\ rpc = "hdr"
    /\ need = 0
    /\ result = [kind |-> "none", body |-> <<>>, hdrs |-> NoHeaders]

\* no response is being read
RdUnused ==
    /\ rq = [clen |-> NoLen]
    /\ rs = [prefix |-> "HTTP/1.1 ", code |-> [i \in 1..3 |-> "2"],
             clen |-> NoLen, body |-> <<>>]
    /\ sockIn = <<>>
    /\ peerClosed = FALSE
    /\ m_recv_buffer = <<>>
    /\ rpc = "done"
    /\ need = 0
    /\ result = [kind |-> "none", body |-> <<>>, hdrs |-> NoHeaders]

\* fail_request(ec): a dead connection (eof) is closed without invoking
\* m_work.second; otherwise m_work.second(ec, nullptr)
RdFail(fatal) ==
    /\ result' = IF fatal THEN result
                 ELSE [kind |-> "null", body |-> <<>>, hdrs |-> NoHeaders]
    /\ rpc' = "done"
    /\ need' = 0

\* async_read_until completes without error, having read the header block
\* and the first k bytes of the body; on_header_recvd copies all of
\* m_recv_buffer into temp and consumes it
RD_Header(k) ==
    /\ rpc = "hdr"
    /\ k \in 0..Len(rs.body)
    /\ sockIn' = SubSeq(rs.body, k + 1, Len(rs.body))
    /\ m_recv_buffer' = <<>>
    /\ LET hdrs == ParsedHeaders(rq, ReceivedHeaders(rs)) IN
       IF ~StatusAccepted(rs.prefix, rs.code) \/ hdrs.clen = BadLen
       THEN RdFail(FALSE)
       ELSE /\ rpc' = IF hdrs.clen = NoLen THEN "body_eof" ELSE "body_n"
            /\ need' = IF hdrs.clen = NoLen THEN 0 ELSE hdrs.clen
            /\ UNCHANGED result
    /\ UNCHANGED <<rq, rs, peerClosed>>

\* the body read receives the next n bytes
RD_Chunk(n) ==
    /\ rpc \in {"body_n", "body_eof"}
    /\ n \in 1..Len(sockIn)
    /\ rpc = "body_n" => Len(m_recv_buffer) + n <= need
    /\ m_recv_buffer' = m_recv_buffer \o SubSeq(sockIn, 1, n)
    /\ sockIn' = SubSeq(sockIn, n + 1, Len(sockIn))
    /\ UNCHANGED <<rq, rs, peerClosed, rpc, need, result>>

\* the peer closes its end: it has sent the whole response
RD_PeerClose ==
    /\ rpc # "hdr"
    /\ ~peerClosed
    /\ peerClosed' = TRUE
    /\ UNCHANGED <<rq, rs, sockIn, m_recv_buffer, rpc, need, result>>

\* transfer_exactly(len) is satisfied: on_body_recvd without error.
\* bodyv.reserve(size); buffer_copy(buffer(bodyv), m_recv_buffer.data());
\* m_work.second(ec, move(m_response)); then the connection is closed
RD_BodyOk ==
    /\ rpc = "body_n"
    /\ Len(m_recv_buffer) = need
    /\ result' = [kind |-> "resp",
                  body |-> BufferCopy(
                      SizeAfterReserve(NewVectorSize, Len(m_recv_buffer)),
                      m_recv_buffer),
                  \* m_response->headers() = hdrs, as parsed by
                  \* on_header_recvd
                  hdrs |-> ParsedHeaders(rq, ReceivedHeaders(rs))]
    /\ m_recv_buffer' = <<>>
    /\ rpc' = "done"
    /\ need' = 0
    /\ UNCHANGED <<rq, rs, sockIn, peerClosed>>

\* the body read reaches the end of the stream: on_body_recvd(eof)
\* consumes the buffer and calls fail_request(eof)
RD_Eof ==
    /\ rpc \in {"body_n", "body_eof"}
    /\ peerClosed
    /\ sockIn = <<>>
    /\ rpc = "body_n" => Len(m_recv_buffer) < need
    /\ m_recv_buffer' = <<>>
    /\ RdFail(TRUE)
    /\ UNCHANGED <<rq, rs, sockIn, peerClosed>>

NextRead ==
    \/ \E k \in 0..MaxBody : RD_Header(k) /\ UNCHANGED exceptRead
    \/ \E n \in 1..MaxBody : RD_Chunk(n) /\ UNCHANGED exceptRead
    \/ RD_PeerClose /\ UNCHANGED exceptRead
    \/ RD_BodyOk /\ UNCHANGED exceptRead
    \/ RD_Eof /\ UNCHANGED exceptRead

(* ================================================================== *)
(* JSONWriter                                                          *)
(* ================================================================== *)
\* What is put on m_out, token by token.  A key token stands for
\* emit_str(key) followed by ':'.
Tok(t) == [t |-> t, s |-> "", n |-> 0]
KeyTok(k) == [t |-> "key", s |-> k, n |-> 0]
StrTok(v) == [t |-> "str", s |-> v, n |-> 0]
IntTok(v) == [t |-> "int", s |-> "", n |-> v]
\* m_out << (val ? "true" : "false")
BoolTok(v) == [t |-> "bool", s |-> IF v THEN "true" ELSE "false", n |-> 0]
\* m_out << double
NumTok(v) == [t |-> "num", s |-> "", n |-> v]

OpenChar(t) == IF t = "OBJECT" THEN "{" ELSE "["
CloseCharObject(t) == "}"
CloseChar(t) == IF t = "OBJECT" THEN "}" ELSE "]"

\* emit_begin: a comma unless m_first.back(), which is then cleared
EmitBegin(w) ==
    IF ~Back(w.first)
    THEN [w EXCEPT !.out = Append(@, Tok(","))]
    ELSE [w EXCEPT !.first[Len(w.first)] = FALSE]

EmitOpen(w, t) == [w EXCEPT !.out = Append(@, Tok(OpenChar(t)))]
EmitClose(w, t) == [w EXCEPT !.out = Append(@, Tok(CloseChar(t)))]
EmitKey(w, k) == [EmitBegin(w) EXCEPT !.out = Append(@, KeyTok(k))]
Put(w, tok) == [w EXCEPT !.out = Append(@, tok)]

\* m_stack.push_back(t); m_first.push_back(true);
PushEnclosure(w, t) ==
    [w EXCEPT !.stack = Append(@, t), !.first = Append(@, TRUE)]

\* JSONWriter::JSONWriter(out, root)
NewWriter(root) ==
    PushEnclosure(EmitOpen([out |-> <<>>, stack |-> <<>>, first |-> <<>>],
                           root), root)

\* operator()(long), operator()(key, int / long / bool / double / string)
JLong(w, v) == Put(EmitBegin(w), IntTok(v))
JKeyInt(w, k, v) == Put(EmitKey(w, k), IntTok(v))
JKeyBool(w, k, v) == Put(EmitKey(w, k), BoolTok(v))
JKeyDouble(w, k, v) == Put(EmitKey(w, k), NumTok(v))
JKeyStr(w, k, v) == Put(EmitKey(w, k), StrTok(v))

\* array(), object(), array(key), object(key)
JOpen(w, t) == PushEnclosure(EmitOpen(EmitBegin(w), t), t)
JOpenKey(w, k, t) == PushEnclosure(EmitOpen(EmitKey(w, k), t), t)

\* end(): emit_close(m_stack.back()); m_stack.pop_back();   (m_first is
\* left as it is)
JEnd(w) == [EmitClose(w, Back(w.stack)) EXCEPT !.stack = PopBack(@)]

\* ~JSONWriter: the loop that closes what is still open
RECURSIVE CloseAll(_)
CloseAll(w) ==
    IF w.stack = <<>> THEN w
    ELSE CloseAll([EmitClose(w, Back(w.stack)) EXCEPT
                      !.stack = PopBack(@), !.first = PopBack(@)])

\* ~JSONWriter: ... m_out.put('\n');
Destroy(w) == Put(CloseAll(w), Tok("\n"))

InitJson ==
    /\ \E root \in EnclosureType :
          /\ jw = NewWriter(root)
          /\ jh = [nCalls |-> 0, brackets |-> <<Tok(OpenChar(root))>>,
                   kinded |-> TRUE, over |-> FALSE,
                   outAtDtor |-> <<>>, stackAtDtor |-> <<>>]
    /\ jstatus = "live"
    /\ jflushed = FALSE

JsonUnused ==
    /\ jw = NewWriter("OBJECT")
    /\ jh = [nCalls |-> 0, brackets |-> <<Tok("{")>>,
             kinded |-> TRUE, over |-> FALSE,
             outAtDtor |-> <<>>, stackAtDtor |-> <<>>]
    /\ jstatus = "done"
    /\ jflushed = FALSE

\* the container a call is made in ("NONE" once the root is closed)
Within == IF jw.stack = <<>> THEN "NONE" ELSE Back(jw.stack)

CanCall == jstatus = "live" /\ jh.nCalls < MaxCalls

\* history of a call that fits a container of kind t
Called(t, toks) ==
    [jh EXCEPT !.nCalls = @ + 1,
               !.kinded = @ /\ Within = t,
               !.brackets = @ \o toks]

\* json(v)
CallLong(v) ==
    /\ CanCall
    /\ jw' = JLong(jw, v)
    /\ jh' = Called("ARRAY", <<>>)
    /\ UNCHANGED <<jstatus, jflushed>>

\* json(key, v)
CallKeyInt(k, v) ==
    /\ CanCall
    /\ jw' = JKeyInt(jw, k, v)
    /\ jh' = Called("OBJECT", <<>>)
    /\ UNCHANGED <<jstatus, jflushed>>

\* json.array(), json.object()
CallOpen(t) ==
    /\ CanCall
    /\ jw' = JOpen(jw, t)
    /\ jh' = Called("ARRAY", <<Tok(OpenChar(t))>>)
    /\ UNCHANGED <<jstatus, jflushed>>

\* json.array(key), json.object(key)
CallOpenKey(k, t) ==
    /\ CanCall
    /\ jw' = JOpenKey(jw, k, t)
    /\ jh' = Called("OBJECT", <<Tok(OpenChar(t))>>)
    /\ UNCHANGED <<jstatus, jflushed>>

\* json.end() with a container open
CallEnd ==
    /\ CanCall
    /\ jw.stack # <<>>
    /\ jw' = JEnd(jw)
    /\ jh' = [jh EXCEPT !.nCalls = @ + 1,
                        !.brackets = Append(@, Tok(CloseChar(Back(jw.stack))))]
    /\ UNCHANGED <<jstatus, jflushed>>

\* json.end() with no container open: m_stack.back() and m_stack.pop_back()
\* on an empty vector are undefined.  The process may be killed; or the
\* call returns, having put '}', ']' or nothing (the switch has no
\* default) on the stream.
CallEndEmpty ==
    /\ CanCall
    /\ jw.stack = <<>>
    /\ jh' = [jh EXCEPT !.nCalls = @ + 1, !.over = TRUE]
    /\ \/ jstatus' = "aborted" /\ UNCHANGED jw
       \/ /\ jstatus' = "overclosed"
          /\ \E o \in {<<>>, <<Tok("}")>>, <<Tok("]")>>} :
                jw' = [jw EXCEPT !.out = @ \o o]
    /\ UNCHANGED jflushed

\* the JSONWriter goes out of scope
Destructor ==
    /\ jstatus = "live"
    /\ jw' = Destroy(jw)
    /\ jflushed' = TRUE
    /\ jstatus' = "done"
    /\ jh' = [jh EXCEPT !.outAtDtor = jw.out, !.stackAtDtor = jw.stack]

JKeys == {"a"}

NextJson ==
    \/ CallLong(1) /\ UNCHANGED exceptJson
    \/ \E k \in JKeys : CallKeyInt(k, 1) /\ UNCHANGED exceptJson
    \/ \E t \in EnclosureType : CallOpen(t) /\ UNCHANGED exceptJson
    \/ \E k \in JKeys, t \in EnclosureType :
          CallOpenKey(k, t) /\ UNCHANGED exceptJson
    \/ CallEnd /\ UNCHANGED exceptJson
    \/ CallEndEmpty /\ UNCHANGED exceptJson
    \/ Destructor /\ UNCHANGED exceptJson

(* ================================================================== *)
(* Metadumper                                                          *)
(* ================================================================== *)
\* a BoundingBox: id, tag (0: none) and bounds, a cv::Rect
BoxSet == [id : {0, 7}, tag : {0, 3}, x : {10}, y : {20},
           width : {40}, height : {60}]
RECURSIVE SeqsOfLen(_, _)
SeqsOfLen(S, n) ==
    IF n = 0 THEN {<<>>}
    ELSE {Append(q, e) : q \in SeqsOfLen(S, n - 1), e \in S}
SeqsUpTo(S, n) == UNION {SeqsOfLen(S, k) : k \in 0..n}
ResultSet ==
    [type : {"RT_BOUNDING_BOXES"}, boxes : SeqsUpTo(BoxSet, MaxBoxes)]
        \cup [type : {"RT_POINTS"}, boxes : {<<>>}]
\* the arguments of accept; the doubles are given in tenths
AcceptArgs ==
    [res : SeqsUpTo(ResultSet, MaxRes), fps : {15}, fpga : BOOLEAN,
     cpu_use : {125}, framerate : {148}, fr_time : {67}]

\* The calls made on the JSONWriter, as data: [op, k, t, v].
OpenC(t) == [op |-> "open", k |-> "", t |-> t, v |-> 0]
OpenKeyC(k, t) == [op |-> "openkey", k |-> k, t |-> t, v |-> 0]
KeyIntC(k, v) == [op |-> "keyint", k |-> k, t |-> "", v |-> v]
KeyBoolC(k, v) ==
    [op |-> "keybool", k |-> k, t |-> "", v |-> IF v THEN 1 ELSE 0]
KeyDoubleC(k, v) == [op |-> "keydouble", k |-> k, t |-> "", v |-> v]
KeyStrC(k, v) == [op |-> "keystr", k |-> k, t |-> v, v |-> 0]
EndC == [op |-> "end", k |-> "", t |-> "", v |-> 0]

\* one call applied to the writer
Apply(w, c) ==
    CASE c.op = "open" -> JOpen(w, c.t)
      [] c.op = "openkey" -> JOpenKey(w, c.k, c.t)
      [] c.op = "keyint" -> JKeyInt(w, c.k, c.v)
      [] c.op = "keybool" -> JKeyBool(w, c.k, c.v = 1)
      [] c.op = "keydouble" -> JKeyDouble(w, c.k, c.v)
      [] c.op = "keystr" -> JKeyStr(w, c.k, c.t)
      [] c.op = "end" -> JEnd(w)

\* the calls cs[lo] .. cs[hi] applied one after the other (the list is
\* halved to keep the evaluation shallow; out is never empty: the test
\* only makes the first half's result a value before the second is run)
RECURSIVE RunRange(_, _, _, _)
RunRange(w, cs, lo, hi) ==
    IF lo > hi THEN w
    ELSE IF lo = hi THEN Apply(w, cs[lo])
    ELSE LET mid == (lo + hi) \div 2
             w1 == RunRange(w, cs, lo, mid)
         IN  IF w1.out = <<>> THEN w1 ELSE RunRange(w1, cs, mid + 1, hi)

Run(w, cs) == RunRange(w, cs, 1, Len(cs))

\* the body of the loop over res.boxes in write_boundboxes
BoxCalls(box) ==
    <<OpenC("OBJECT")>>
    \o (IF box.id # 0 THEN <<KeyIntC("id", box.id)>> ELSE <<>>)
    \o (IF box.tag # 0 THEN <<KeyIntC("tag", box.tag)>> ELSE <<>>)
    \o <<OpenKeyC("topleft", "OBJECT"),
         KeyIntC("x", box.x), KeyIntC("y", box.y), EndC,
         OpenKeyC("btmright", "OBJECT"),
         KeyIntC("x", box.x + box.width),
         KeyIntC("y", box.y + box.height), EndC,
         KeyIntC("area", box.width * box.height), EndC>>

RECURSIVE BoxesCalls(_)
BoxesCalls(boxes) ==
    IF boxes = <<>> THEN <<>>
    ELSE BoxCalls(Head(boxes)) \o BoxesCalls(Tail(boxes))

\* Metadumper::write_boundboxes
WriteBoundboxes(r) ==
    <<OpenC("OBJECT"), KeyStrC("type", "bounding-boxes"),
      OpenKeyC("boxes", "ARRAY")>>
    \o BoxesCalls(r.boxes)
    \o <<EndC, EndC>>

\* Metadumper::write_result
WriteResult(r) ==
    IF r.type = "RT_BOUNDING_BOXES" THEN WriteBoundboxes(r) ELSE <<>>

\* for(auto r : res) write_result(json, *r);
RECURSIVE WriteResults(_)
WriteResults(res) ==
    IF res = <<>> THEN <<>>
    ELSE WriteResult(Head(res)) \o WriteResults(Tail(res))

\* Metadumper::accept: the calls made between the construction of json
\* and the end of its scope
AcceptCalls(a) ==
    <<OpenKeyC("frame", "OBJECT"),
      KeyIntC("fps", a.fps), KeyBoolC("fpga", a.fpga),
      OpenKeyC("perf", "OBJECT"),
      KeyDoubleC("cpu_use", a.cpu_use), KeyDoubleC("fps", a.framerate),
      KeyIntC("fr_time", a.fr_time), EndC,
      OpenKeyC("results", "ARRAY")>>
    \o WriteResults(a.res)
    \o <<EndC>>

\* Metadumper::accept: what is on strm when json has been destroyed
AcceptText(a) == Destroy(Run(NewWriter("OBJECT"), AcceptCalls(a))).out

InitDump ==
    /\ din \in AcceptArgs
    /\ dout = <<>>

DumpUnused ==
    /\ din = [res |-> <<>>, fps |-> 15, fpga |-> FALSE,
              cpu_use |-> 125, framerate |-> 148, fr_time |-> 67]
    /\ dout = <<AcceptText(din)>>

\* dumper->accept(...): build the text, then m_tgt->write(strm.str())
Accept ==
    /\ dout = <<>>
    /\ dout' = Append(dout, AcceptText(din))
    /\ UNCHANGED din

NextDump ==
    \/ Accept /\ UNCHANGED exceptDump

(* ================================================================== *)
(* Construction of a target and the thread of its callbacks            *)
(* ================================================================== *)
\* The argument each class passes to AsioDumpTarget's constructor.
\* HTTPTarget::HTTPTarget(keepalive, svc) : AsioDumpTarget(svc), ...
\* SocketTarget::SocketTarget(svc) { ... } names no base initializer, so
\* the base is built with its default argument, nullptr; UDPTarget and
\* TCPTarget pass svc to SocketTarget only.
BaseArg(cls, a) == IF cls = "HTTPTarget" THEN a ELSE "nullptr"

\* asynchronous operations the constructor of the class itself starts:
\* TCPTarget's constructor calls m_sock->async_connect
CtorOps(cls) == IF cls = "TCPTarget" THEN 1 ELSE 0

\* the thread that runs the handlers of an io_service
Runner(s) == IF s = "own" THEN "m_svc_thread" ELSE "app"

HandlersRun == ran["app"] + ran["m_svc_thread"]

InitLoop ==
    /\ target \in Targets
    /\ svc \in {"app", "nullptr"}
    /\ ctor = "base"
    /\ m_svc = "none"
    /\ m_work = FALSE
    /\ m_svc_thread = 0
    /\ started = 0
    /\ ran = [t \in LoopThreads |-> 0]

\* a constructed HTTPTarget on its own loop, idle
LoopUnused ==
    /\ target = "HTTPTarget"
    /\ svc = "nullptr"
    /\ ctor = "ready"
    /\ m_svc = "own"
    /\ m_work = TRUE
    /\ m_svc_thread = 1
    /\ started = 0
    /\ ran = [t \in LoopThreads |-> 0]

\* AsioDumpTarget::AsioDumpTarget(svc)
AsioDumpTargetCtor ==
    /\ ctor = "base"
    /\ IF BaseArg(target, svc) = "nullptr"
       THEN /\ m_svc' = "own"
            /\ m_svc_thread' = m_svc_thread + 1
       ELSE /\ m_svc' = BaseArg(target, svc)
            /\ UNCHANGED m_svc_thread
    /\ m_work' = TRUE
    /\ ctor' = "derived"
    /\ UNCHANGED <<target, svc, started, ran>>

\* SocketTarget::SocketTarget and UDPTarget / TCPTarget, or HTTPTarget:
\* timer, resolver and socket are all made on *m_svc
DerivedCtor ==
    /\ ctor = "derived"
    /\ started' = started + CtorOps(target)
    /\ ctor' = "ready"
    /\ UNCHANGED <<target, svc, m_svc, m_work, m_svc_thread, ran>>

\* write() / submit(): an async_send, async_write, async_connect,
\* async_wait or async_read is started on an object made on *m_svc
StartOp ==
    /\ ctor = "ready"
    /\ started < MaxOps
    /\ started' = started + 1
    /\ UNCHANGED <<target, svc, ctor, m_svc, m_work, m_svc_thread, ran>>

\* the completion handler of an operation runs inside m_svc->run()
RunHandler ==
    /\ ctor = "ready"
    /\ HandlersRun < started
    /\ ran' = [ran EXCEPT ![Runner(m_svc)] = @ + 1]
    /\ UNCHANGED <<target, svc, ctor, m_svc, m_work, m_svc_thread, started>>

NextLoop ==
    \/ AsioDumpTargetCtor /\ UNCHANGED exceptLoop
    \/ DerivedCtor /\ UNCHANGED exceptLoop
    \/ StartOp /\ UNCHANGED exceptLoop
    \/ RunHandler /\ UNCHANGED exceptLoop

(* ================================================================== *)
(* URL: path, query and request target                                 *)
(* ================================================================== *)
\* strings are sequences of characters
Chars(str) == [i \in 1..Len(str) |-> str[i]]
PathParts == {<<"p">>, <<"q", "r">>}
QueryStrings == {<<>>, <<"x">>, <<"x", "=", "1">>}
QueryKeys == {"a", "b"}
QueryValues == {<<"1">>, <<" ">>}
\* std::map iterates in key order
KeyOrder == <<"a", "b">>

\* static string RESERVED_CHARS = "\n !*'():;@&=+$,/?#[]";
RESERVED_CHARS == {" ", "!", "*", "'", "(", ")", ":", ";", "@", "&", "=",
                   "+", "$", ",", "/", "?", "#", "[", "]"}
HEX_DIGITS == <<"0", "1", "2", "3", "4", "5", "6", "7", "8", "9",
                "A", "B", "C", "D", "E", "F">>
\* the character codes of the characters used
CharCode(c) ==
    CASE c = " " -> 32
      [] c = "=" -> 61
      [] c = "1" -> 49
      [] c = "a" -> 97
      [] c = "b" -> 98
      [] c = "x" -> 120
      [] OTHER -> 63

\* string urlencode(string s)
RECURSIVE urlencode(_)
urlencode(str) ==
    IF str = <<>> THEN <<>>
    ELSE LET c == Head(str)
         IN  (IF c \in RESERVED_CHARS
              THEN <<"%", HEX_DIGITS[((CharCode(c) \div 16) % 16) + 1],
                          HEX_DIGITS[(CharCode(c) % 16) + 1]>>
              ELSE <<c>>) \o urlencode(Tail(str))

\* string URL::path() const
RECURSIVE JoinPath(_)
JoinPath(parts) ==
    IF parts = <<>> THEN <<>>
    ELSE <<"/">> \o Head(parts) \o JoinPath(Tail(parts))

UrlPath(u) ==
    IF u.m_path.set THEN JoinPath(u.m_path.parts) ELSE <<"/">>

\* the loop of URL::query() over the map, from the i-th key on
RECURSIVE QueryOfMap(_, _, _)
QueryOfMap(kv, i, first_elem) ==
    IF i > Len(KeyOrder) THEN <<>>
    ELSE IF KeyOrder[i] \notin DOMAIN kv
         THEN QueryOfMap(kv, i + 1, first_elem)
         ELSE (IF first_elem THEN <<"?">> ELSE <<"&">>)
              \o urlencode(<<KeyOrder[i]>>) \o <<"=">>
              \o urlencode(kv[KeyOrder[i]])
              \o QueryOfMap(kv, i + 1, FALSE)

\* string URL::query() const
UrlQuery(u) ==
    IF u.m_query.which = 0
    THEN <<"?">> \o u.m_query.str
    ELSE QueryOfMap(u.m_query.kv, 1, TRUE)

\* string URL::make_request_target(bool abs) const, abs = false
make_request_target(u) == UrlPath(u) \o UrlQuery(u)

\* HTTPConnection::encode_request: the request line of a POST
RequestLine(u) ==
    <<"P", "O", "S", "T", " ">> \o make_request_target(u)
        \o <<" ", "H", "T", "T", "P", "/", "1", ".", "1", "\r", "\n">>

NoMap == [k \in {} |-> <<>>]
NoOut == [made |-> FALSE, of |-> <<>>, query |-> <<>>, line |-> <<>>]

\* URL::URL(scheme, host, port): m_query = ""; no path
InitUrl ==
    /\ url = [m_path |-> [set |-> FALSE, parts |-> <<>>],
              m_query |-> [which |-> 0, str |-> <<>>, kv |-> NoMap]]
    /\ uout = NoOut

UrlUnused == InitUrl

\* URL& URL::query(string q)
SetQueryString(q) ==
    /\ url' = [url EXCEPT !.m_query = [which |-> 0, str |-> q, kv |-> NoMap]]
    /\ UNCHANGED uout

\* URL& URL::query(const map<string, string>& kv)
SetQueryMap(kv) ==
    /\ url' = [url EXCEPT !.m_query = [which |-> 1, str |-> <<>>, kv |-> kv]]
    /\ UNCHANGED uout

\* void URL::push(string part)
UrlPush(part) ==
    /\ Len(url.m_path.parts) < MaxPath
    /\ url' = [url EXCEPT !.m_path = [set |-> TRUE,
                                      parts |-> Append(@.parts, part)]]
    /\ UNCHANGED uout

\* void URL::pop()
UrlPop ==
    /\ url.m_path.set
    /\ LET rest == SubSeq(url.m_path.parts, 1, Len(url.m_path.parts) - 1)
       IN  url' = [url EXCEPT !.m_path = [set |-> rest # <<>>,
                                          parts |-> rest]]
    /\ UNCHANGED uout

\* encode_request writes the request line for the URL as it is now
EncodeRequest ==
    /\ uout' = [made |-> TRUE, of |-> <<url>>, query |-> UrlQuery(url),
                line |-> RequestLine(url)]
    /\ UNCHANGED url

NextUrl ==
    \/ \E q \in QueryStrings : SetQueryString(q) /\ UNCHANGED exceptUrl
    \/ \E ks \in SUBSET QueryKeys : \E kv \in [ks -> QueryValues] :
          SetQueryMap(kv) /\ UNCHANGED exceptUrl
    \/ \E part \in PathParts : UrlPush(part) /\ UNCHANGED exceptUrl
    \/ UrlPop /\ UNCHANGED exceptUrl
    \/ EncodeRequest /\ UNCHANGED exceptUrl

(* ================================================================== *)
(* Specifications                                                      *)
(* ================================================================== *)
vars == <<senderVars, httpVars, rdVars, jsonVars, dumpVars, loopVars,
          urlVars>>

\* the parts of the program a specification leaves alone
Unused == JsonUnused /\ DumpUnused /\ LoopUnused /\ UrlUnused

\* the Queued Socket Sender alone: the HTTP client is not used
Init ==
    /\ InitSender /\ ~hist.timed /\ ~hist.traced /\ InitHttp /\ m_enable_keepalive /\ RdUnused
    /\ Unused
Spec == Init /\ [][NextSender]_vars

\* the HTTP client alone: the socket sender is not used
InitHttpOnly ==
    /\ InitHttp /\ InitSender /\ ~hist.timed /\ ~hist.traced /\ kind = "udp" /\ RdUnused
    /\ Unused
SpecHttp == InitHttpOnly /\ [][NextHttp]_vars

\* one response read alone
InitReadOnly ==
    /\ InitRead
    /\ InitSender /\ ~hist.timed /\ ~hist.traced /\ kind = "udp"
    /\ InitHttp /\ m_enable_keepalive
    /\ Unused
SpecRead == InitReadOnly /\ [][NextRead]_vars

\* one JSONWriter alone
SenderUnused == InitSender /\ ~hist.timed /\ ~hist.traced /\ kind = "udp"
HttpUnused == InitHttp /\ m_enable_keepalive
InitJsonOnly ==
    /\ InitJson /\ SenderUnused /\ HttpUnused /\ RdUnused /\ DumpUnused
    /\ LoopUnused /\ UrlUnused
SpecJson == InitJsonOnly /\ [][NextJson]_vars

\* one call of Metadumper::accept alone
InitDumpOnly ==
    /\ InitDump /\ SenderUnused /\ HttpUnused /\ RdUnused /\ JsonUnused
    /\ LoopUnused /\ UrlUnused
SpecDump == InitDumpOnly /\ [][NextDump]_vars

\* the construction of one target and the running of its callbacks
InitLoopOnly ==
    /\ InitLoop /\ SenderUnused /\ HttpUnused /\ RdUnused
    /\ JsonUnused /\ DumpUnused /\ UrlUnused
SpecLoop == InitLoopOnly /\ [][NextLoop]_vars

\* one URL object and the request lines written for it
InitUrlOnly ==
    /\ InitUrl /\ SenderUnused /\ HttpUnused /\ RdUnused
    /\ JsonUnused /\ DumpUnused /\ LoopUnused
SpecUrl == InitUrlOnly /\ [][NextUrl]_vars

\* The Stream Sender with the time since a connect failure recorded.
InitConn ==
    /\ InitSender /\ hist.timed /\ ~hist.traced /\ kind = "tcp"
    /\ InitHttp /\ m_enable_keepalive /\ RdUnused
    /\ Unused
SpecConn == InitConn /\ [][NextSender]_vars

\* The Stream Sender under fair scheduling.
InitLive == Init /\ kind = "tcp"

\* a thread inside perform_attempt / attempt_send takes its next step
AttemptStep(t) ==
    \/ PA_LockP(t) \/ PA_LockQ(t) \/ AS_LockC(t) \/ AS_IO(t)
    \/ PA_Set(t) \/ PA_TimerChk(t) \/ PA_TimerArm(t)

\* the frame thread, once inside enqueue_send, keeps running
FrameStep == EnqPush \/ AttemptStep("frame")

\* io_service::run(): a handler that has been dispatched runs to its end
LoopStep ==
    \/ AttemptStep("loop")
    \/ RST_LockC \/ OTS_LockP \/ OTS_LockQ
    \/ OTF_LockP \/ OTF_TimerChk \/ OTF_TimerArm
    \/ HCR_Ok \/ HCR_TimerChk \/ HCR_TimerArm

\* Threads are scheduled and time passes (weak fairness); io_service runs
\* its ready handlers in the order they became ready, so a wait handler
\* that is ready again and again is run (strong fairness).  Completions of
\* socket operations and calls of write() are the environment's: no
\* fairness.
Fairness ==
    /\ WF_senderVars(FrameStep)
    /\ WF_senderVars(LoopStep)
    /\ WF_senderVars(Tick)
    /\ \A h \in TimerHandlers : SF_senderVars(TimerFire(h)) /\ SF_senderVars(PostedRun(h))

SpecLive == InitLive /\ [][NextSender]_vars /\ Fairness

\* Only the two threads are scheduled: a thread that is ready to run runs,
\* and a thread waiting in lock() gets a mutex that is released again and
\* again.  Nothing is assumed of the network or of the clock: completions,
\* timer expiries and the passing of time may never happen.
SchedFairness ==
    /\ SF_senderVars(FrameStep)
    /\ WF_senderVars(LoopStep)

SpecSched == Init /\ [][NextSender]_vars /\ SchedFairness

\* The senders on a network that works in the end: besides the fair
\* scheduling of SpecLive, a completion that stays due is delivered.  A
\* send may still fail and a connect may still be refused, as often as
\* the bounds allow.
NetFairness ==
    /\ Fairness
    /\ SF_senderVars(SendOk)
    /\ SF_senderVars(ConnectOk)

SpecNet == Init /\ [][NextSender]_vars /\ NetFairness

\* the senders with callers that pass different bytes and reuse their
\* buffers after the call
InitCopy ==
    /\ InitSender /\ ~hist.timed /\ hist.traced
    /\ InitHttp /\ m_enable_keepalive /\ RdUnused
    /\ Unused
NextCopy ==
    \/ NextSender
    \/ CallerScribble /\ UNCHANGED exceptSender
SpecCopy == InitCopy /\ [][NextCopy]_vars

(* ================================================================== *)
(* Properties of the HTTP client                                       *)
(* ================================================================== *)
Created(c) == conn[c].creator # 0
BothIdle == \A t \in Threads : hpc[t] = "idle"

\* C6: on every HTTPConnection at most one socket read or write is
\* outstanding, it belongs to the request in m_work, which is no longer in
\* the backlog, and every request dequeued before the latest one had its
\* handler invoked (response or failure) before the latest was dequeued.
C6_OneRequestInFlight ==
    \A c \in ConnIds :
        /\ Len(conn[c].ios) <= 1
        /\ conn[c].ios # <<>> =>
               /\ conn[c].m_pending
               /\ conn[c].m_work = Op(c).r
               /\ Op(c).r \notin Range(conn[c].m_queue)
        /\ \A i \in 1..(Len(conn[c].sentLog) - 1) :
               calls[conn[c].sentLog[i]] # <<>>

\* a second request is in flight after the first completed, while a third
\* waits in the backlog
C6_Witness ==
    \E c \in ConnIds :
        /\ Len(conn[c].sentLog) >= 2
        /\ conn[c].ios # <<>>
        /\ conn[c].m_queue # <<>>

\* C7 (as claimed): once fail_request has handled a connection-fatal error,
\* the handler of the request that was in flight has been invoked with an
\* absent response.
C7_FatalErrorNullsInFlightHandler ==
    \A c \in ConnIds :
        (conn[c].torn = "fatal" /\ hpc["loop"] = "idle") =>
            "null" \in Range(calls[conn[c].m_work])

\* C8 (as claimed): once a connection's teardown has run and both threads
\* are back at rest, its socket is closed, the pool no longer holds it, and
\* every request still in its backlog has been completed.
C8_ClosingCompletesBacklog ==
    \A c \in ConnIds :
        (conn[c].torn # "none" /\ BothIdle) =>
            /\ conn[c].sock = "closed"
            /\ m_conns[conn[c].key] # c
            /\ c \notin m_active_conns
            /\ \A r \in Range(conn[c].m_queue) : calls[r] # <<>>

\* C9 (as claimed): once the resolve or the connect made for a submit has
\* failed and its handler has run, the handler given to that submit has
\* been invoked with an absent response.
C9_ResolveOrConnectFailureNullsHandler ==
    \A c \in ConnIds :
        ((conn[c].rfail \/ conn[c].cfail) /\ hpc["loop"] = "idle") =>
            "null" \in Range(calls[conn[c].creator])

\* connection c, as recorded in cn, has been made and is neither closed
\* nor failed
LiveIn(c, cn) ==
    /\ cn[c].creator # 0
    /\ cn[c].sock \in {"unopened", "connecting", "connected"}
    /\ ~cn[c].rfail
Live(c) == LiveIn(c, conn)

\* C10 (as claimed): with connection reuse, at most one live connection, and
\* at most one outbound TCP connection, exists per key; and a pool entry
\* goes away only when the connection it holds is no longer live.
C10_OneLiveConnectionPerKey ==
    /\ [](m_enable_keepalive =>
            \A k \in Keys :
                Cardinality({c \in ConnIds : conn[c].key = k /\ Live(c)}) <= 1)
    /\ [][\A k \in Keys :
            (m_conns[k] # 0 /\ m_conns'[k] # m_conns[k]) =>
                ~LiveIn(m_conns[k], conn')]_vars

\* the teardown of connection c has begun: its socket has been closed, or
\* its backlog has been failed and the close path is still running
TeardownBegun(c) ==
    \/ conn[c].sock = "closed"
    \/ conn[c].torn # "none"
    \/ /\ hpc["loop"] \in {"ff_unlock", "ff_close", "dispose"}
       /\ hloc["loop"].c = c
       /\ ~conn[c].rfail /\ ~conn[c].cfail

\* C11 (as claimed): whenever get_conn finds a pooled connection and hands
\* it to the caller of submit, the teardown of that connection has not
\* begun.
C11_NeverHandedConnectionInTeardown ==
    [][(hpc["frame"] = "gc_lookup" /\ hpc'["frame"] = "ar_push") =>
            ~TeardownBegun(hloc'["frame"].c)]_vars

\* C12 (as claimed): a request is written to a connection only after the
\* connection's TCP connect has succeeded.
C12_NoWriteBeforeConnected ==
    [][\A c \in ConnIds :
            Len(conn'[c].sentLog) > Len(conn[c].sentLog) =>
                conn[c].sock \notin {"unopened", "connecting", "failed"}]_vars

\* C13 (as claimed): with connection reuse, once a response has been
\* received completely the connection is closed if and only if the
\* response was not a persistent one (HTTP/1.1 without a close signal);
\* after a persistent response the socket stays open for the next request.
C13_PersistentResponseKeepsConnection ==
    m_enable_keepalive =>
        \A c \in ConnIds :
            /\ conn[c].lastResp = "persist" => conn[c].torn # "close"
            /\ conn[c].lastResp = "close" => conn[c].torn = "close"

\* the thread t is inside async_request / attempt_request of connection c
InRequest(t, c) == hpc[t] \in {"ar_push", "at_lock"} /\ hloc[t].c = c

C18_ThrowawayConnectionDiscarded ==
    ~m_enable_keepalive =>
        /\ hpc["frame"] = "idle" => nConn = nReq
        /\ \A c \in ConnIds :
            /\ Created(c) => Range(conn[c].sentLog) \subseteq {conn[c].creator}
            /\ (Created(c) /\ calls[conn[c].creator] # <<>>
                    /\ hpc["loop"] = "idle") =>
                /\ conn[c].sock \in {"closed", "failed"}
                /\ c \notin m_active_conns

(* ================================================================== *)
(* Properties of the response read                                     *)
(* ================================================================== *)
\* the status line begins with HTTP/1.0 or HTTP/1.1 and its code is three
\* decimal digits
IsDecimalDigit(ch) == ch \in {"0", "1", "2", "3", "4", "5", "6", "7", "8", "9"}
WellFormedStatus(prefix, code) ==
    /\ prefix \in {"HTTP/1.0 ", "HTTP/1.1 "}
    /\ \A i \in 1..3 : IsDecimalDigit(code[i])

\* C14 (as claimed): when the response's header block carries
\* Content-Length: N, the response given to the handler has as its body
\* exactly the N bytes that follow the header block, however the bytes
\* were split across reads.
C14_BodyIsTheContentLengthBytes ==
    (result.kind = "resp" /\ rs.clen # NoLen) => result.body = rs.body

\* C15 (as claimed): when the response to a request without Content-Length
\* has a well-formed status line and no Content-Length, and the peer has
\* closed after sending the body, the read ends with the handler invoked
\* with a response whose body is all the bytes sent after the header
\* block.
C15_CloseTerminatedBodyDelivered ==
    (/\ rpc = "done" /\ peerClosed /\ rq.clen = NoLen
     /\ WellFormedStatus(rs.prefix, rs.code) /\ rs.clen = NoLen) =>
        (result.kind = "resp" /\ result.body = rs.body)

\* C16 (as claimed): once on_header_recvd has run on a header block whose
\* status line is not well formed, the request has failed with an absent
\* response and no body read has been started.
C16_MalformedStatusLineRejected ==
    (rpc # "hdr" /\ ~WellFormedStatus(rs.prefix, rs.code)) =>
        (rpc = "done" /\ result.kind = "null")

(* ================================================================== *)
(* Properties of the Stream Sender (TCPTarget)                         *)
(* ================================================================== *)
\* C19 (as claimed): a TCPTarget starts a socket write only while it is
\* connected: a connect has succeeded since construction and since the
\* last send that failed with connection_reset or broken_pipe.
C19_WritesOnlyWhileConnected ==
    [][(kind = "tcp" /\ Len(inflight') > Len(inflight)) => hist.linkUp]_vars

\* C20: once a TCPTarget has lost its connection while sending buffer b and
\* a later connect has succeeded, b is eventually attempted again; and the
\* first write begun after the loss is of b.
C20_LostBufferResentFirst ==
    /\ [][(hist.lostBuf # 0 /\ Len(inflight') > Len(inflight))
            => Back(inflight') = hist.lostBuf]_vars
    /\ [](hist.lostBuf # 0 => m_queue # <<>> /\ Front(m_queue) = hist.lostBuf)
    /\ ((hist.lostBuf # 0 /\ hist.linkUp) ~> (hist.lostBuf = 0))

\* the lost buffer, with another one queued behind it, was written again
\* after the reconnect
C20_Witness ==
    /\ kind = "tcp"
    /\ hist.resent # 0
    /\ hist.linkUp
    /\ Len(m_queue) >= 2
    /\ inflight = <<hist.resent>>

\* C21 (as claimed): a connect attempt that retries a failed one is issued
\* only when the reconnect delay has elapsed since the (oldest unretried)
\* connect failure.
C21_ReconnectAfterFixedDelay ==
    [][(pc["loop"] = "idle" /\ connOps' = connOps + 1)
          => hist.connFailSince >= ReconnectDelayMs]_vars

(* ================================================================== *)
(* Properties of the JSONWriter and the Metadumper                     *)
(* ================================================================== *)
\* A recogniser of JSON texts, over tokens.  stk: the containers open;
\* st: "start", "first" (a container was just opened), "key" (a key and
\* its colon were read), "item" (a member or element is complete),
\* "comma", "done" (the root value is complete), "bad".
IsScalar(tok) == tok.t \in {"int", "bool", "num", "str"}

ScanStep(sc, tok) ==
    LET top == IF sc.stk = <<>> THEN "NONE" ELSE Back(sc.stk)
        bad == [stk |-> <<>>, st |-> "bad"]
        valueHere == \/ sc.st = "start"
                     \/ top = "ARRAY" /\ sc.st \in {"first", "comma"}
                     \/ top = "OBJECT" /\ sc.st = "key"
        after == IF sc.stk = <<>> THEN "done" ELSE "item"
    IN  CASE tok.t = "{" ->
               IF valueHere
               THEN [stk |-> Append(sc.stk, "OBJECT"), st |-> "first"]
               ELSE bad
          [] tok.t = "[" ->
               IF valueHere
               THEN [stk |-> Append(sc.stk, "ARRAY"), st |-> "first"]
               ELSE bad
          [] tok.t = "}" ->
               IF top = "OBJECT" /\ sc.st \in {"first", "item"}
               THEN [stk |-> PopBack(sc.stk),
                     st |-> IF Len(sc.stk) = 1 THEN "done" ELSE "item"]
               ELSE bad
          [] tok.t = "]" ->
               IF top = "ARRAY" /\ sc.st \in {"first", "item"}
               THEN [stk |-> PopBack(sc.stk),
                     st |-> IF Len(sc.stk) = 1 THEN "done" ELSE "item"]
               ELSE bad
          [] tok.t = "," ->
               IF sc.st = "item" THEN [sc EXCEPT !.st = "comma"] ELSE bad
          [] tok.t = "key" ->
               IF top = "OBJECT" /\ sc.st \in {"first", "comma"}
               THEN [sc EXCEPT !.st = "key"]
               ELSE bad
          [] IsScalar(tok) ->
               IF valueHere THEN [sc EXCEPT !.st = after] ELSE bad
          [] tok.t = "\n" -> sc

\* toks[lo] .. toks[hi] read from state sc (the text is halved to keep
\* the evaluation shallow)
RECURSIVE Scan(_, _, _, _)
Scan(sc, toks, lo, hi) ==
    IF lo > hi \/ sc.st = "bad" THEN sc
    ELSE IF lo = hi THEN ScanStep(sc, toks[lo])
    ELSE LET mid == (lo + hi) \div 2
             n == Scan(sc, toks, lo, mid)
         IN  IF n.st = "bad" THEN n ELSE Scan(n, toks, mid + 1, hi)

ValidJson(toks) ==
    Scan([stk |-> <<>>, st |-> "start"], toks, 1, Len(toks)).st = "done"

IsBracket(tok) == tok.t \in {"{", "}", "[", "]"}
Brackets(toks) == SelectSeq(toks, IsBracket)

\* C22 (as claimed): when every container opened, the root included, has
\* been closed by end(), and every call fitted the container it was made
\* in, the text is valid JSON and its brackets are those of the calls.
C22_BalancedCallsGiveValidJson ==
    (jstatus = "done" /\ jh.kinded /\ ~jh.over /\ jh.stackAtDtor = <<>>)
        => /\ ValidJson(jw.out)
           /\ Brackets(jw.out) = jh.brackets

\* the closing tokens of the containers of a stack, innermost first
Closers(stk) ==
    [i \in 1..Len(stk) |->
        Tok(IF stk[Len(stk) + 1 - i] = "OBJECT" THEN "}" ELSE "]")]

\* C23: the destructor appends to the stream the closing token of each
\* container still open, innermost first, then a newline, leaves no
\* container open and flushes the stream.
C23_DestructorClosesAllLifo ==
    (jstatus = "done" /\ ~jh.over)
        => /\ jw.out = jh.outAtDtor \o Closers(jh.stackAtDtor) \o <<Tok("\n")>>
           /\ jw.stack = <<>>
           /\ jflushed

\* a writer destroyed with three containers open, of both kinds
C23_Witness ==
    /\ jstatus = "done"
    /\ ~jh.over
    /\ Len(jh.stackAtDtor) >= 3
    /\ \E i, j \in DOMAIN jh.stackAtDtor :
          jh.stackAtDtor[i] = "OBJECT" /\ jh.stackAtDtor[j] = "ARRAY"

\* C24 (as claimed): end() with no container open stops the program.
C24_OverCloseFailsLoudly == jh.over => jstatus = "aborted"

\* The text of a document, for comparison.
RECURSIVE JoinComma(_)
JoinComma(parts) ==
    IF parts = <<>> THEN <<>>
    ELSE IF Len(parts) = 1 THEN Head(parts)
    ELSE Head(parts) \o <<Tok(",")>> \o JoinComma(Tail(parts))

ObjT(members) == <<Tok("{")>> \o JoinComma(members) \o <<Tok("}")>>
ArrT(elems) == <<Tok("[")>> \o JoinComma(elems) \o <<Tok("]")>>
KV(k, text) == <<KeyTok(k)>> \o text

PointT(x, y) == ObjT(<<KV("x", <<IntTok(x)>>), KV("y", <<IntTok(y)>>)>>)

BoxT(box) ==
    ObjT((IF box.id # 0 THEN <<KV("id", <<IntTok(box.id)>>)>> ELSE <<>>)
         \o (IF box.tag # 0 THEN <<KV("tag", <<IntTok(box.tag)>>)>> ELSE <<>>)
         \o <<KV("topleft", PointT(box.x, box.y)),
              KV("btmright", PointT(box.x + box.width, box.y + box.height)),
              KV("area", <<IntTok(box.width * box.height)>>)>>)

EntryT(r) ==
    ObjT(<<KV("type", <<StrTok("bounding-boxes")>>),
           KV("boxes", ArrT([i \in DOMAIN r.boxes |-> BoxT(r.boxes[i])]))>>)

IsBoxes(r) == r.type = "RT_BOUNDING_BOXES"

DocumentT(a) ==
    ObjT(<<KV("frame", ObjT(<<
        KV("fps", <<IntTok(a.fps)>>),
        KV("fpga", <<BoolTok(a.fpga)>>),
        KV("perf", ObjT(<<KV("cpu_use", <<NumTok(a.cpu_use)>>),
                          KV("fps", <<NumTok(a.framerate)>>),
                          KV("fr_time", <<IntTok(a.fr_time)>>)>>)),
        KV("results",
           ArrT([i \in DOMAIN SelectSeq(a.res, IsBoxes) |->
                    EntryT(SelectSeq(a.res, IsBoxes)[i])]))>>))>>)

\* C25 (as claimed): the text accept hands to the transport is the text of
\* the document with frame.fps, frame.fpga, frame.perf and one entry of
\* frame.results per bounding-box record, each box with topleft, btmright,
\* area, and id / tag when they are not 0.
C25_AcceptWritesTheDocument ==
    \A i \in DOMAIN dout : dout[i] = DocumentT(din) \o <<Tok("\n")>>

(* ================================================================== *)
(* Locking                                                             *)
(* ================================================================== *)
\* C27 (as claimed, for HTTPConnection): the backlog and the pending flag
\* of a connection are only read or written by a thread that holds the
\* connection's m_queue_mut.
C27_SharedStateOnlyUnderItsMutex == \A c \in ConnIds : conn[c].bare = {}


\* the mutexes of the sender that thread t owns
Held(t) ==
    {m \in {"m_pending_mut", "m_queue_mut", "m_connected_mtx"} :
        \/ m = "m_pending_mut" /\ m_pending_mut = t
        \/ m = "m_queue_mut" /\ m_queue_mut = t
        \/ m = "m_connected_mtx" /\ m_connected_mtx = t}

\* thread t takes the step that hands a send or a connect to the socket
IssuesIO(t) ==
    /\ pc'[t] # pc[t]
    /\ \/ Len(inflight') > Len(inflight)
       \/ connOps' > connOps

\* C28 (as claimed): no thread owns m_pending_mut, m_queue_mut or
\* m_connected_mtx at the moment it issues a socket send, write or connect
\* operation; each mutex is released before the I/O call is made.
C28_NoMutexHeldAcrossIO ==
    [][\A t \in Threads : IssuesIO(t) => Held(t) = {}]_vars


(* ================================================================== *)
(* The frame thread's path                                             *)
(* ================================================================== *)
\* C26: a call of write() / enqueue_send made by the frame thread always
\* returns, by the frame thread's own steps and the scheduling of the two
\* threads alone: it never waits for a completion, a connection, a timer
\* or the passing of time, whatever the state of the network.
C26_WriteNeverWaitsForNetwork ==
    pc["frame"] # "idle" ~> pc["frame"] = "idle"

\* every call has returned although the peer never accepted a byte: the
\* stream is down, nothing was sent and a retry is waiting on the timer
C26_Witness ==
    /\ kind = "tcp"
    /\ ~m_connected
    /\ pc["frame"] = "idle"
    /\ hist.nEnq = MaxEnq
    /\ Len(m_queue) = MaxEnq
    /\ hist.attemptLog = <<>>
    /\ m_retry_timer.waits["attempt"] > 0


(* ================================================================== *)
(* The queued copy                                                     *)
(* ================================================================== *)
\* C29: the bytes handed to the socket by every attempt (the first and
\* the retries) of a queued buffer are the caller's bytes as they were
\* when enqueue_send was called, whatever the caller has done with its
\* buffer since.
C29_AttemptsSendTheEnqueuedBytes ==
    inflight # <<>> => hist.handed = hist.orig[Head(inflight)]

\* a retry of a failed send is in flight, of a buffer whose caller has
\* reused its memory since, behind which another buffer is queued
C29_Witness ==
    /\ inflight # <<>>
    /\ hist.retryOf = Head(inflight)
    /\ hist.caller = Junk
    /\ Len(m_queue) >= 2
    /\ hist.handed = hist.orig[Head(inflight)]


(* ================================================================== *)
(* The event loop a target uses                                        *)
(* ================================================================== *)
\* C30 (as claimed): a UDPTarget, TCPTarget or HTTPTarget constructed with
\* the application's event loop uses that loop, starts no thread, and all
\* of its handlers run on the application's loop thread; constructed
\* without one it creates its own loop and exactly one thread, on which
\* all of its handlers run.
C30_UsesTheGivenLoop ==
    ctor = "ready" =>
        IF svc = "nullptr"
        THEN m_svc = "own" /\ m_svc_thread = 1 /\ ran["app"] = 0
        ELSE m_svc = svc /\ m_svc_thread = 0 /\ ran["m_svc_thread"] = 0


(* ================================================================== *)
(* Properties of the request target                                    *)
(* ================================================================== *)
HasNoQuery(u) ==
    \/ u.m_query.which = 0 /\ u.m_query.str = <<>>
    \/ u.m_query.which = 1 /\ DOMAIN u.m_query.kv = {}

\* the request line with the given target
LineOf(tgt) ==
    <<"P", "O", "S", "T", " ">> \o tgt
        \o <<" ", "H", "T", "T", "P", "/", "1", ".", "1", "\r", "\n">>

\* C31 (as claimed): for a URL that has no query, query() returns the
\* empty string and the request target written in the request line is the
\* path alone, without a '?'; for a URL with a query the target is the
\* path, a '?' and the query.
C31_NoQueryNoQuestionMark ==
    uout.made =>
        LET u == uout.of[1]
        IN  IF HasNoQuery(u)
            THEN /\ uout.query = <<>>
                 /\ uout.line = LineOf(UrlPath(u))
            ELSE /\ Head(uout.query) = "?"
                 /\ uout.line = LineOf(UrlPath(u) \o uout.query)
                 /\ u.m_query.which = 0 => Tail(uout.query) = u.m_query.str


(* ================================================================== *)
(* Order of the requests of one connection                             *)
(* ================================================================== *)
\* C32: the requests of one HTTPConnection are written to the socket in
\* the order of their async_request calls: the requests dequeued and
\* written so far are, in the same order, the first ones given to the
\* connection.
C32_RequestsSentInSubmissionOrder ==
    \A c \in ConnIds :
        /\ Len(conn[c].sentLog) <= Len(conn[c].pushLog)
        /\ conn[c].sentLog = SubSeq(conn[c].pushLog, 1, Len(conn[c].sentLog))

\* a connection has written two requests, the second of which waited in
\* the backlog with a third while the first was in flight
C32_Witness ==
    \E c \in ConnIds :
        /\ Len(conn[c].pushLog) = 3
        /\ Len(conn[c].sentLog) = 2
        /\ Len(conn[c].m_queue) = 1
        /\ conn[c].ios # <<>>


(* ================================================================== *)
(* The headers of a response                                           *)
(* ================================================================== *)
\* C33 (as claimed): the header set that chooses the body framing, and the
\* header set of the Response given to the completion handler, are the
\* header lines received from the peer for that request, not bytes of
\* the request that was sent.
C33_HeadersAreTheReceivedOnes ==
    /\ rpc = "body_n" => rs.clen # NoLen /\ need = rs.clen
    /\ rpc = "body_eof" => rs.clen = NoLen
    /\ result.kind = "resp" => result.hdrs = ReceivedHeaders(rs)


(* ================================================================== *)
(* Progress of the Queued Socket Sender                                *)
(* ================================================================== *)
\* a wait on m_retry_timer whose handler calls perform_attempt is
\* registered, or was cancelled and is ready to run
AttemptScheduled ==
    m_retry_timer.waits["attempt"] + posted["attempt"] > 0

\* C34: the sender never stalls: whenever buffers are queued and neither
\* thread is inside the sender's code, a send is in flight or a retry-timer
\* callback that will call perform_attempt is outstanding; and on a
\* network whose attempts succeed in the end, every queued buffer is
\* eventually transmitted and removed from the queue.
NotStalled ==
    (m_queue # <<>> /\ \A t \in Threads : pc[t] = "idle")
        => (inflight # <<>> \/ AttemptScheduled)

C34_NeverStalls ==
    /\ []NotStalled
    /\ []<>(m_queue = <<>> /\ hist.okSet = 1..hist.nEnq)

\* buffers are queued behind a refused attempt on a stream that is down:
\* nothing is in flight and only the retry timer keeps the sender going
C34_Witness ==
    /\ Len(m_queue) >= 2
    /\ \A t \in Threads : pc[t] = "idle"
    /\ inflight = <<>>
    /\ AttemptScheduled
    /\ hist.nFail > 0


(* ================================================================== *)
(* The pending flag and the head of the queue                          *)
(* ================================================================== *)
\* C35: whenever m_pending is true the queue is not empty and its head is
\* the buffer of the latest attempt; the buffer of a send in flight is the
\* head of the queue; and when on_transmit_succeed is about to pop, the
\* queue is not empty and its head is the buffer whose send was just
\* reported successful.
C35_PendingMeansHeadInFlight ==
    /\ m_pending =>
           /\ m_queue # <<>>
           /\ hist.attemptLog # <<>>
           /\ Head(m_queue) = hist.attemptLog[Len(hist.attemptLog)]
    /\ inflight # <<>> =>
           /\ m_queue # <<>>
           /\ Head(inflight) = Head(m_queue)
    /\ pc["loop"] \in {"ots_lock_p", "ots_lock_q"} =>
           /\ m_queue # <<>>
           /\ Head(m_queue) = hist.attemptLog[Len(hist.attemptLog)]
           /\ Head(m_queue) \in hist.okSet

\* on_transmit_succeed is about to pop the head after an earlier failure
\* of it, with other buffers queued behind
C35_Witness ==
    /\ pc["loop"] = "ots_lock_q"
    /\ m_pending
    /\ Len(m_queue) >= 2
    /\ hist.nFail > 0
    /\ pc["frame"] = "pa_lock_p"


(* ================================================================== *)
(* Completion handlers of the HTTP client                              *)
(* ================================================================== *)
\* C36: the completion handler of a submitted request is invoked at most
\* once, whatever successes, protocol errors, fatal errors and closes
\* occur; a backlog request failed by a teardown is not dequeued or sent
\* afterwards.
C36_HandlerAtMostOnce ==
    /\ \A r \in Reqs : Len(calls[r]) <= 1
    /\ \A c \in ConnIds :
         conn[c].torn # "none" =>
             \A r \in Range(conn[c].m_queue) : r \notin Range(conn[c].sentLog)

\* a teardown has failed two backlog requests after the request in flight
\* was answered, and every handler has run
C36_Witness ==
    \E c \in ConnIds :
        /\ conn[c].torn = "close"
        /\ Len(conn[c].m_queue) = 2
        /\ \A r \in Range(conn[c].m_queue) : calls[r] = <<"null">>
        /\ calls[conn[c].sentLog[1]] = <<"resp">>
        /\ BothIdle


(* ================================================================== *)
(* Ownership of the response                                           *)
(* ================================================================== *)
\* C37: the connection reads the response in flight only while it owns
\* it: m_response is never dereferenced after it was moved into the
\* completion handler (or before it was made).
C37_NoReadAfterHandover ==
    \A c \in ConnIds : ~conn[c].rdNull

\* a response was handed to its handler and the connection went on to
\* close the socket and fail its backlog
C37_Witness ==
    \E c \in ConnIds :
        /\ conn[c].torn = "close"
        /\ conn[c].m_response = "null"
        /\ calls[conn[c].sentLog[Len(conn[c].sentLog)]] = <<"resp">>
        /\ conn[c].m_queue # <<>>
        /\ hpc["loop"] = "b_failq"


(* ================================================================== *)
(* Accesses to m_retry_timer                                           *)
(* ================================================================== *)
\* thread t is between reading m_retry_timer->expires_from_now() and the
\* expires_from_now(d) / async_wait that re-arms it
AtRetryTimer(t) ==
    pc[t] \in {"pa_timer_chk", "pa_timer_arm", "otf_timer_chk",
               "otf_timer_arm", "hcr_timer_chk", "hcr_timer_arm"}

\* C39 (as claimed): the frame thread and the event-loop thread are never
\* reading or re-arming m_retry_timer at the same time; each access made by
\* perform_attempt, on_transmit_fail and handle_connect_result excludes the
\* other thread's, by a common lock or by being confined to one thread.
C39_RetryTimerAccessSerialized ==
    \A t \in Threads : \A u \in Threads \ {t} :
        ~(AtRetryTimer(t) /\ AtRetryTimer(u))


(* ================================================================== *)
(* The mutexes of the transports and the order they are taken in       *)
(* ================================================================== *)
\* the transport the program runs is the one it constructed: a UDPTarget
\* or TCPTarget (the socket sender) or an HTTPTarget
InitLocks ==
    /\ InitSender /\ ~hist.timed /\ ~hist.traced
    /\ InitHttp
    /\ RdUnused /\ JsonUnused /\ DumpUnused /\ UrlUnused
    /\ target \in Targets
    /\ kind = (IF target = "TCPTarget" THEN "tcp" ELSE "udp")
    /\ target # "HTTPTarget" => m_enable_keepalive
    /\ svc = "nullptr"
    /\ ctor = "ready"
    /\ m_svc = "own"
    /\ m_work = TRUE
    /\ m_svc_thread = 1
    /\ started = 0
    /\ ran = [t \in LoopThreads |-> 0]

NextLocks ==
    \/ target # "HTTPTarget" /\ NextSender
    \/ target = "HTTPTarget" /\ NextHttp

SpecLocks == InitLocks /\ [][NextLocks]_vars

\* a mutex: the member's name, and for HTTPConnection::m_queue_mut the
\* connection it belongs to.  "conn.m_queue_mut" is HTTPConnection's
\* m_queue_mut, "m_queue_mut" is SocketTarget's.
Mutex(n, c) == [name |-> n, c |-> c]
Mutexes ==
    {Mutex(n, 0) : n \in {"m_pending_mut", "m_queue_mut", "m_connected_mtx",
                          "m_conns_mtx"}}
    \cup {Mutex("conn.m_queue_mut", c) : c \in ConnIds}

\* the thread that owns mutex m, or NoOne
Owner(m) ==
    CASE m.name = "m_pending_mut" -> m_pending_mut
      [] m.name = "m_queue_mut" -> m_queue_mut
      [] m.name = "m_connected_mtx" -> m_connected_mtx
      [] m.name = "m_conns_mtx" -> m_conns_mtx
      [] m.name = "conn.m_queue_mut" -> conn[m.c].m_queue_mut

HeldBy(t) == {m \in Mutexes : Owner(m) = t}

\* the mutexes whose lock_guard thread t is about to construct (none or one)
Wants(t) ==
    {Mutex("m_pending_mut", 0) :
        x \in {pc[t]} \cap {"pa_lock_p", "ots_lock_p", "otf_lock_p"}}
    \cup {Mutex("m_queue_mut", 0) :
        x \in {pc[t]} \cap {"enq_push", "pa_lock_q", "ots_lock_q"}}
    \cup {Mutex("m_connected_mtx", 0) :
        x \in {pc[t]} \cap {"as_lock_c", "rst_lock_c", "hcr_ok"}}
    \cup {Mutex("m_conns_mtx", 0) :
        x \in {hpc[t]} \cap {"gc_lookup", "gc_new", "dispose"}}
    \cup {Mutex("conn.m_queue_mut", hloc[t].c) :
        x \in {hpc[t]} \cap {"ar_push", "at_lock", "fin_lock", "ff_failq"}}

\* the order the code takes the mutexes in, outermost first: perform_attempt
\* and on_transmit_succeed nest m_pending_mut, m_queue_mut, m_connected_mtx;
\* get_conn's reuse branch nests m_conns_mtx, HTTPConnection::m_queue_mut
LockOrder ==
    {<<"m_pending_mut", "m_queue_mut">>,
     <<"m_pending_mut", "m_connected_mtx">>,
     <<"m_queue_mut", "m_connected_mtx">>,
     <<"m_conns_mtx", "conn.m_queue_mut">>}

\* thread t asks only for a mutex that comes after all those it holds
InOrder(t) ==
    \A w \in Wants(t) : \A h \in HeldBy(t) : <<h.name, w.name>> \in LockOrder

\* thread t waits for a mutex owned by thread u
WaitsFor(t, u) == \E w \in Wants(t) : Owner(w) = u

\* C38: the frame thread and the event-loop thread never deadlock on the
\* transport's mutexes: a thread only asks for a mutex that follows, in one
\* fixed order (m_pending_mut, m_queue_mut, m_connected_mtx for the senders;
\* m_conns_mtx, HTTPConnection::m_queue_mut for HTTP), every mutex it
\* already holds, so it never asks for one it holds itself, handlers that
\* run under a mutex included; and no two threads wait for each other.
C38_NoDeadlockOnMutexes ==
    /\ \A t \in Threads : InOrder(t) /\ ~WaitsFor(t, t)
    /\ \A t \in Threads : \A u \in Threads \ {t} :
           ~(WaitsFor(t, u) /\ WaitsFor(u, t))

\* the frame thread, inside get_conn's reuse branch with m_conns_mtx held,
\* waits for the m_queue_mut of a connection while the event-loop thread
\* holds it in fail_request and has run the handlers of the backlog
C38_Witness ==
    /\ hpc["frame"] \in {"ar_push", "at_lock"}
    /\ m_conns_mtx = "frame"
    /\ hpc["loop"] = "ff_unlock"
    /\ hloc["loop"].c = hloc["frame"].c
    /\ WaitsFor("frame", "loop")
    /\ conn[hloc["loop"].c].m_queue # <<>>

=============================================================================
